---- MODULE Spec2Model ----
(***************************************************************************)
(* A model of the wkflws workflow engine: the trigger dispatch             *)
(* (wkflws/triggers/base.py), the workflow execution driver                *)
(* (wkflws/workflow.py) and the JSONPath helpers (wkflws/utils/jsonpath.py)*)
(*                                                                         *)
(* Python objects that are shared by reference live in `heap`; a variable  *)
(* of the program that holds a dict holds a reference into the heap, so    *)
(* that an in-place update made through one reference is seen through      *)
(* every other reference to the same cell.                                 *)
(***************************************************************************)
EXTENDS Integers, Sequences, FiniteSets, TLC

(***************************************************************************)
(* JSON values.  Every value is a record of the same shape so that any two *)
(* values can be compared: k is the kind, n the number of a "num", o the   *)
(* members of an "obj" (a function from key to value) or the elements of a *)
(* "list" (a sequence).                                                    *)
(***************************************************************************)
JNull == [k |-> "null", n |-> 0, o |-> <<>>]

JNum(i) == [k |-> "num", n |-> i, o |-> <<>>]

JObj(f) == [k |-> "obj", n |-> 0, o |-> f]

JList(s) == [k |-> "list", n |-> 0, o |-> s]

\* a reference to the list object in cell i of the heap
JRef(i) == [k |-> "ref", n |-> i, o |-> <<>>]

\* in a workflow definition: its n-th list literal, s being the elements
\* the definition was loaded with
JLiteral(n, s) == [k |-> "literal", n |-> n, o |-> s]

EmptyObj == JObj(<<>>)

IsObj(v) == v.k = "obj"

HasKey(v, key) == IsObj(v) /\ key \in DOMAIN v.o

\* d[key] = val on a Python dict
PutKey(v, key, val) ==
    JObj([x \in (DOMAIN v.o) \cup {key} |-> IF x = key THEN val ELSE v.o[x]])

\* Python truthiness of a JSON value (bool(v))
Truthy(v) ==
    CASE v.k = "null" -> FALSE
      [] v.k = "num"  -> v.n # 0
      [] v.k = "obj"  -> DOMAIN v.o # {}
      [] v.k = "list" -> Len(v.o) > 0
      [] OTHER        -> TRUE

(***************************************************************************)
(* JSONPath expressions.  The text of an expression is modelled by its     *)
(* sequence of lexemes with the "." separators dropped: "$.a.b" is         *)
(* <<"$","a","b">>, "$$.x" is <<"$","$","x">>, "r" is <<"r">>, and         *)
(* "$.a[-2:]" is <<"$","a","[-2:]">>.                                      *)
(***************************************************************************)
\* The slice selectors of the model and what the parser reads in them
\* (Slice.start, Slice.end; has_* is FALSE for a bound left out)
SliceBounds ==
    ("[:]" :> [has_start |-> FALSE, start |-> 0, has_end |-> FALSE, end |-> 0])
    @@ ("[0:1]" :> [has_start |-> TRUE, start |-> 0, has_end |-> TRUE, end |-> 1])
    @@ ("[-2:]" :> [has_start |-> TRUE, start |-> -2, has_end |-> FALSE, end |-> 0])
    @@ ("[1:]" :> [has_start |-> TRUE, start |-> 1, has_end |-> FALSE, end |-> 0])

IsSlice(lexeme) == lexeme \in DOMAIN SliceBounds

\* the index selectors of the model, and the position they name in a
\* sequence
IndexOf == ("[0]" :> 1)

IsIndex(lexeme) == lexeme \in DOMAIN IndexOf

\* Python's index arithmetic for one bound of seq[start:end] on length n
ClampBound(i, n) ==
    IF i < 0 THEN (IF n + i < 0 THEN 0 ELSE n + i) ELSE (IF i > n THEN n ELSE i)

\* seq[start:end]
PySlice(seq, b) ==
    SubSeq(seq,
           (IF b.has_start THEN ClampBound(b.start, Len(seq)) ELSE 0) + 1,
           IF b.has_end THEN ClampBound(b.end, Len(seq)) ELSE Len(seq))

\* jsonpath_ng Slice.find(datum): nothing for a falsy value, a dict or a
\* number is put in a one-element list first, a list is sliced
SliceFind(data, lexeme) ==
    IF ~Truthy(data) THEN <<>>
    ELSE IF data.k \in {"obj", "num"} THEN PySlice(<<data>>, SliceBounds[lexeme])
    ELSE PySlice(data.o, SliceBounds[lexeme])

\* str.startswith("$")
StartsWithDollar(expr) == Len(expr) >= 1 /\ expr[1] = "$"

\* str.startswith("$$")
StartsWithDollarDollar(expr) == Len(expr) >= 2 /\ expr[1] = "$" /\ expr[2] = "$"

\* jsonpath_ng parse(): Root for "$", Child(..., Fields) for each member
PathFields(expr) == IF StartsWithDollar(expr) THEN Tail(expr) ELSE expr

RECURSIVE FieldValues(_, _)
\* the values of the fields `keys` of a dict, one key after the other
FieldValues(fields, keys) ==
    IF keys = {} THEN <<>>
    ELSE <<fields[CHOOSE key \in keys : TRUE]>>
         \o FieldValues(fields, keys \ {CHOOSE key \in keys : TRUE})

RECURSIVE Within(_)
RECURSIVE WithinEach(_)
\* a value and the values below it, as Descendants.find visits them
Within(data) ==
    <<data>> \o
    (IF data.k = "obj" THEN WithinEach(FieldValues(data.o, DOMAIN data.o))
     ELSE IF data.k = "list" THEN WithinEach(data.o)
     ELSE <<>>)

WithinEach(values) ==
    IF values = <<>> THEN <<>>
    ELSE Within(Head(values)) \o WithinEach(Tail(values))

RECURSIVE Find(_, _)
RECURSIVE FindEach(_, _)
\* parser.find(data): the list of matches (at most one without slices and
\* descendants)
Find(data, fields) ==
    IF fields = <<>> THEN <<data>>
    \* Descendants(left, Fields): the field of data and of whatever is below
    ELSE IF Head(fields) = ".."
         THEN FindEach(FindEach(Within(data), <<fields[2]>>), Tail(Tail(fields)))
    ELSE IF IsSlice(Head(fields))
         THEN FindEach(SliceFind(data, Head(fields)), Tail(fields))
    ELSE IF HasKey(data, Head(fields))
         THEN Find(data.o[Head(fields)], Tail(fields))
         ELSE <<>>

\* Child.find: the right-hand side applied to every match of the left
FindEach(values, fields) ==
    IF values = <<>> THEN <<>>
    ELSE Find(Head(values), fields) \o FindEach(Tail(values), fields)

\* isinstance(parser.right, Slice): the expression ends in a slice selector
EndsInSlice(expr) == Len(expr) >= 2 /\ IsSlice(expr[Len(expr)])

\* What is no JSONPath for parse(): an operator between blanks, with the
\* exception parse() raises at it
NotAPath == (" * " :> "JsonPathParserError") @@ (" + " :> "JsonPathLexerError")

\* the exception of parse(jsonpath_expr), "" when it parses
parse_error(expr) ==
    IF \E i \in DOMAIN expr : expr[i] \in DOMAIN NotAPath
    THEN NotAPath[expr[CHOOSE i \in DOMAIN expr :
                        /\ expr[i] \in DOMAIN NotAPath
                        /\ \A j \in 1..(i - 1) : expr[j] \notin DOMAIN NotAPath]]
    ELSE ""

\* the parse tree is a chain of Child nodes down to Root
ChildChain(expr) ==
    StartsWithDollar(expr) /\ \A i \in DOMAIN expr : expr[i] # ".."

get_jsonpath_value(data, jsonpath_expr) ==
    LET result == Find(data, PathFields(jsonpath_expr))
        rooted == ChildChain(jsonpath_expr)
    IN  IF parse_error(jsonpath_expr) # ""
        THEN [err |-> parse_error(jsonpath_expr), v |-> JNull]
        ELSE IF Len(result) > 1 THEN [err |-> "", v |-> JList(result)]
        ELSE IF Len(result) = 1
        THEN IF result[1].k \in {"obj", "list"}
             THEN [err |-> "", v |-> result[1]]
             \* the walk reads parser.right, which only a Child node has
             ELSE IF Len(jsonpath_expr) = 1
                  THEN [err |-> "AttributeError", v |-> JNull]
             ELSE IF EndsInSlice(jsonpath_expr)
                  THEN [err |-> "", v |-> JList(<<result[1]>>)]
             \* the walk to the left ends at Root; it never ends without one
             ELSE IF ~rooted THEN [err |-> "NeverReturns", v |-> JNull]
                  ELSE [err |-> "", v |-> result[1]]
        ELSE [err |-> "", v |-> JList(<<>>)]

RECURSIVE CanCreate(_, _)
\* update_or_create walks through dicts only
CanCreate(data, fields) ==
    IF fields = <<>> THEN TRUE
    ELSE /\ IsObj(data)
         /\ IF Len(fields) = 1 THEN TRUE
            ELSE CanCreate(IF HasKey(data, Head(fields))
                           THEN data.o[Head(fields)] ELSE EmptyObj,
                           Tail(fields))

RECURSIVE update_or_create(_, _, _)
\* parser.update_or_create(data, val): the content of `data` afterwards.
\* Root.update returns val and leaves data alone; Fields sets data[field].
update_or_create(data, fields, val) ==
    IF fields = <<>> THEN data
    \* Index on a list that has the element: data[index] = val
    ELSE IF IsIndex(Head(fields)) /\ data.k = "list"
            /\ IndexOf[Head(fields)] <= Len(data.o)
    THEN JList([data.o EXCEPT ![IndexOf[Head(fields)]] =
                    IF Len(fields) = 1 THEN val
                    ELSE update_or_create(@, Tail(fields), val)])
    ELSE IF Len(fields) = 1 THEN PutKey(data, Head(fields), val)
    ELSE PutKey(data, Head(fields),
                update_or_create(IF HasKey(data, Head(fields))
                                 THEN data.o[Head(fields)] ELSE EmptyObj,
                                 Tail(fields), val))

\* The result names the content of the caller's `data` afterwards (data),
\* the returned value (ret) and whether the returned object is the caller's
\* own object (same) or a copy.
set_jsonpath_value(data, new_data, jsonpath_expr, use_copy) ==
    LET fields == PathFields(jsonpath_expr)
        \* data_copy if data_copy else data
        onCopy == use_copy /\ Truthy(data)
    IN  IF ~CanCreate(data, fields)
        THEN [err |-> "TypeError", data |-> data, ret |-> data, same |-> TRUE]
        ELSE IF onCopy
        THEN [err |-> "", data |-> data,
              ret |-> update_or_create(data, fields, new_data), same |-> FALSE]
        ELSE [err |-> "", data |-> update_or_create(data, fields, new_data),
              ret |-> update_or_create(data, fields, new_data), same |-> TRUE]

(***************************************************************************)
(* Intrinsic functions (wkflws/intrinsic_funcs).  The source text of an    *)
(* intrinsic expression is modelled by its sequence of lexemes, the        *)
(* members of a JSONPath again without their "." separators:               *)
(* "States.Array($.x,2)" is <<"States",".","Array","(","$","x",",","2",    *)
(* ")">>.  An operator written between blanks is one lexeme, " * ".        *)
(* The values of the interpreter are the JSON values and three kinds more: *)
(* a Decimal (n counts tenths), a str and a tuple.                         *)
(***************************************************************************)
JDec(tenths) == [k |-> "dec", n |-> tenths, o |-> <<>>]

JStr(text) == [k |-> "str", n |-> 0, o |-> <<text>>]

JTuple(s) == [k |-> "tuple", n |-> 0, o |-> s]

\* an IntrinsicCallable registered under the name `name`
Callable(name) == [k |-> "callable", n |-> 0, o |-> name]

\* Scanner.scan_token: the characters that are a token of their own
SingleCharacter ==
    ("(" :> "LEFT_PAREN") @@ (")" :> "RIGHT_PAREN") @@ ("," :> "COMMA")
    @@ ("." :> "DOT") @@ ("-" :> "MINUS") @@ ("+" :> "PLUS")
    @@ ("/" :> "SLASH") @@ ("*" :> "STAR")

\* an operator between two blanks, and the operator in it
BlankOperator == (" * " :> "*") @@ (" + " :> "+")

\* the number lexemes of the model and Decimal(lexeme), in tenths
NumberLiteral == ("0.1" :> 1) @@ ("2" :> 20) @@ ("3" :> 30)

\* the number lexemes with a "." in them
Fractions == {"0.1"}

\* the string lexemes of the model and the text between the apostrophes
StringLiteral == ("'hi'" :> "hi") @@ ("' hi '" :> " hi ")

\* a string lexeme whose closing apostrophe is missing
Unterminated == {"'hi"}

\* the lexemes that are one letter
OneLetter == {"x"}

\* the lexemes made of letters
Alpha == {"States", "Array", "String", "Trim", "Nope", "x", "price"}

Token(type, lexeme, literal) ==
    [type |-> type, lexeme |-> lexeme, literal |-> literal]

EofToken == Token("EOF", <<>>, JNull)

RECURSIVE path_end(_, _)
\* process_jsonpath: the position after the selectors that follow the "$"
path_end(value, i) ==
    IF i <= Len(value) /\ (value[i] \in Alpha \/ IsSlice(value[i]))
    THEN path_end(value, i + 1)
    ELSE i

RECURSIVE scan(_, _, _)
\* process_jsonpath from the "$" at position i, the selectors ending before
\* position j.  A blank after the path is taken together with the character
\* after it: of " * 2" the blank and "*", then the blank and "2", all of it
\* ending up in the lexeme of the JSONPATH token; of " * 0.1" the "." then
\* starts a dot selector whose member name begins with a digit.  (After
\* such an operator the sources of the model have a number or nothing.)
\* A member name of one letter that ends the source raises TypeError.
process_jsonpath(value, i, tokens, j) ==
    IF j <= Len(value) /\ value[j] \in DOMAIN BlankOperator
    THEN IF j + 1 <= Len(value) /\ value[j + 1] \in Fractions
         THEN [err |-> "Exception", tokens |-> tokens]
         ELSE IF j + 1 <= Len(value) /\ value[j + 1] \in DOMAIN NumberLiteral
         THEN scan(value, j + 2,
                   Append(tokens, Token("JSONPATH", SubSeq(value, i, j + 1), JNull)))
         ELSE scan(value, j + 1,
                   Append(tokens, Token("JSONPATH", SubSeq(value, i, j), JNull)))
    \* name_char = ord(self.peek()) at the end of the source
    ELSE IF j > Len(value) /\ value[j - 1] \in OneLetter
    THEN [err |-> "TypeError", tokens |-> tokens]
    ELSE scan(value, j,
              Append(tokens, Token("JSONPATH", SubSeq(value, i, j - 1), JNull)))

\* Scanner.scan_token for the lexeme c at position i
scan_token(value, i, tokens, c) ==
    IF c \in DOMAIN SingleCharacter
    THEN scan(value, i + 1, Append(tokens, Token(SingleCharacter[c], <<c>>, JNull)))
    ELSE IF c \in DOMAIN BlankOperator
    THEN scan(value, i + 1,
              Append(tokens, Token(SingleCharacter[BlankOperator[c]],
                                   <<BlankOperator[c]>>, JNull)))
    ELSE IF c \in DOMAIN StringLiteral
    THEN scan(value, i + 1,
              Append(tokens, Token("STRING", <<c>>, JStr(StringLiteral[c]))))
    \* process_string: "Unterminated string"
    ELSE IF c \in Unterminated THEN [err |-> "Exception", tokens |-> tokens]
    ELSE IF c = "$"
    THEN process_jsonpath(value, i, tokens,
                          path_end(value, IF i < Len(value) /\ value[i + 1] = "$"
                                          THEN i + 2 ELSE i + 1))
    ELSE IF c \in DOMAIN NumberLiteral
    THEN scan(value, i + 1,
              Append(tokens, Token("NUMBER", <<c>>, JDec(NumberLiteral[c]))))
    ELSE IF c \in Alpha
    THEN scan(value, i + 1, Append(tokens, Token("IDENTIFIER", <<c>>, JNull)))
    \* "Unrecognized character"
    ELSE [err |-> "Exception", tokens |-> tokens]

\* Scanner(value).scan(): the tokens, EOF last
scan(value, i, tokens) ==
    IF i > Len(value) THEN [err |-> "", tokens |-> Append(tokens, EofToken)]
    ELSE scan_token(value, i, tokens, value[i])

\* The expressions of expr.py
NoExpr == [node |-> "None"]

Literal(value) == [node |-> "Literal", value |-> value]

Grouping(expression) == [node |-> "Grouping", expression |-> expression]

Unary(operator, right) == [node |-> "Unary", operator |-> operator, right |-> right]

Binary(left, operator, right) ==
    [node |-> "Binary", left |-> left, operator |-> operator, right |-> right]

Variable(name) == [node |-> "Variable", name |-> name]

Call(callee, paren, arguments) ==
    [node |-> "Call", callee |-> callee, paren |-> paren, arguments |-> arguments]

\* What a method of the Parser leaves: the exception it raised if any, the
\* expression it returns, the cursor (Parser.current, counted from 1) and
\* the Token objects of Parser.tokens as the method leaves them
Parsed(tokens, expr, current) ==
    [err |-> "", expr |-> expr, current |-> current, tokens |-> tokens]

ParseFailed(tokens, err, current) ==
    [err |-> err, expr |-> NoExpr, current |-> current, tokens |-> tokens]

\* Variable(self.previous()): the expression holds the Token object of the
\* list, not a copy of it; `at` is the place of that object in Parser.tokens
\* and name what the object reads
VariableOf(tokens, at) == [node |-> "Variable", name |-> tokens[at], at |-> at]

\* Parser.check: never true of the EOF token
check(tokens, current, token_type) ==
    tokens[current].type # "EOF" /\ tokens[current].type = token_type

\* the number of arguments finish_call accepts
MaxArguments == 254

RECURSIVE expression(_, _)
RECURSIVE unary(_, _)
RECURSIVE call_loop(_)
RECURSIVE arguments_loop(_, _, _, _)

\* Parser.primary, "(" expression ")"
grouping(r) ==
    IF r.err # "" THEN r
    ELSE IF check(r.tokens, r.current, "RIGHT_PAREN")
    THEN Parsed(r.tokens, Grouping(r.expr), r.current + 1)
    ELSE ParseFailed(r.tokens, "ParseError", r.current)

\* Parser.primary
primary(tokens, current) ==
    IF check(tokens, current, "NUMBER") \/ check(tokens, current, "STRING")
    THEN Parsed(tokens, Literal(tokens[current].literal), current + 1)
    ELSE IF check(tokens, current, "LEFT_PAREN")
    THEN grouping(expression(tokens, current + 1))
    ELSE IF check(tokens, current, "IDENTIFIER") \/ check(tokens, current, "JSONPATH")
    THEN Parsed(tokens, VariableOf(tokens, current), current + 1)
    ELSE ParseFailed(tokens, "ParseError", current)

\* Parser.finish_call once the arguments are read: the closing parenthesis
close_call(tokens, callee, arguments, current) ==
    IF check(tokens, current, "RIGHT_PAREN")
    THEN Parsed(tokens, Call(callee, tokens[current], arguments), current + 1)
    ELSE ParseFailed(tokens, "ParseError", current)

\* Parser.finish_call, `while True`: l holds the arguments read so far, the
\* cursor, the tokens, whether the loop was left and the exception that left
\* it.  r is the argument just parsed: a comma after it starts another turn
next_argument(l, r) ==
    IF r.err # ""
    THEN [l EXCEPT !.left = TRUE, !.err = r.err, !.current = r.current,
                   !.tokens = r.tokens]
    ELSE IF check(r.tokens, r.current, "COMMA")
    THEN [l EXCEPT !.arguments = Append(@, r.expr), !.current = r.current + 1,
                   !.tokens = r.tokens]
    ELSE [l EXCEPT !.arguments = Append(@, r.expr), !.current = r.current,
                   !.tokens = r.tokens, !.left = TRUE]

\* a turn that reads the argument before it looks at the limit
arguments_turn_late(l) ==
    IF l.left THEN l
    ELSE IF Len(l.arguments) >= MaxArguments
    THEN [next_argument(l, expression(l.tokens, l.current))
              EXCEPT !.left = TRUE,
                     !.err = IF @ = "" THEN "ParseError" ELSE @]
    ELSE next_argument(l, expression(l.tokens, l.current))

\* one turn of the loop
arguments_turn(l) ==
    IF l.left THEN l
    ELSE IF Len(l.arguments) >= MaxArguments
    THEN [l EXCEPT !.left = TRUE, !.err = "ParseError"]
    ELSE next_argument(l, expression(l.tokens, l.current))

\* k turns of the loop, the first half of them and then the rest; no turn is
\* taken once the loop was left
RECURSIVE turns(_, _)
turns(l, k) ==
    IF l.left \/ k = 0 THEN l
    ELSE IF k = 1 THEN arguments_turn(l)
    ELSE turns(turns(l, k \div 2), k - (k \div 2))

\* the loop has been left
arguments_read(callee, l) ==
    IF l.err # "" THEN ParseFailed(l.tokens, l.err, l.current)
    ELSE close_call(l.tokens, callee, l.arguments, l.current)

\* Parser.finish_call: the loop over the arguments; it takes no more turns
\* than there are tokens
arguments_loop(tokens, callee, arguments, current) ==
    arguments_read(callee,
                   turns([arguments |-> arguments, current |-> current,
                          tokens |-> tokens, left |-> FALSE, err |-> ""],
                         Len(tokens)))

\* Parser.finish_call, the cursor after the opening parenthesis
finish_call(tokens, callee, current) ==
    IF check(tokens, current, "RIGHT_PAREN")
    THEN close_call(tokens, callee, <<>>, current)
    ELSE arguments_loop(tokens, callee, <<>>, current)

\* expr.name.lexeme += f".{name.lexeme}": the Token object the Variable r.expr
\* holds, which is an element of Parser.tokens, gets the longer lexeme
renamed(r) ==
    [r.tokens EXCEPT ![r.expr.at].lexeme =
         @ \o <<".">> \o r.tokens[r.current + 1].lexeme]

\* Parser.call, a DOT was matched: only a Variable has a name
property(r) ==
    IF ~check(r.tokens, r.current + 1, "IDENTIFIER")
    THEN ParseFailed(r.tokens, "ParseError", r.current + 1)
    ELSE IF r.expr.node # "Variable"
    THEN ParseFailed(r.tokens, "AttributeError", r.current + 2)
    ELSE IF check(r.tokens, r.current + 2, "LEFT_PAREN")
    THEN finish_call(renamed(r), VariableOf(renamed(r), r.expr.at), r.current + 3)
    ELSE Parsed(renamed(r), VariableOf(renamed(r), r.expr.at), r.current + 2)

\* Parser.call: the loop after the primary expression
call_loop(r) ==
    IF r.err # "" THEN r
    ELSE IF check(r.tokens, r.current, "LEFT_PAREN")
    THEN call_loop(finish_call(r.tokens, r.expr, r.current + 1))
    ELSE IF check(r.tokens, r.current, "DOT")
    THEN call_loop(property(r))
    ELSE r

\* Parser.call
call(tokens, current) == call_loop(primary(tokens, current))

negated(operator, r) ==
    IF r.err # "" THEN r ELSE Parsed(r.tokens, Unary(operator, r.expr), r.current)

\* Parser.unary
unary(tokens, current) ==
    IF check(tokens, current, "MINUS")
    THEN negated(tokens[current], unary(tokens, current + 1))
    ELSE call(tokens, current)

RECURSIVE binary_loop(_, _)
\* the right operand r joined to the expression left
joined(operators, left, operator, r) ==
    IF r.err # "" THEN r
    ELSE binary_loop(operators,
                     Parsed(r.tokens, Binary(left, operator, r.expr), r.current))

\* Parser.factor
factor(tokens, current) ==
    binary_loop({"SLASH", "STAR"}, unary(tokens, current))

\* the while loop of Parser.term and of Parser.factor: r is the expression
\* so far, operators the token types the loop matches
binary_loop(operators, r) ==
    IF r.err # "" THEN r
    ELSE IF \E t \in operators : check(r.tokens, r.current, t)
    THEN joined(operators, r.expr, r.tokens[r.current],
                IF "STAR" \in operators THEN unary(r.tokens, r.current + 1)
                ELSE factor(r.tokens, r.current + 1))
    ELSE r

\* Parser.term
term(tokens, current) ==
    binary_loop({"MINUS", "PLUS"}, factor(tokens, current))

\* Parser.expression
expression(tokens, current) == term(tokens, current)

RECURSIVE parse(_, _, _)
\* Parser.parse: one statement after the other until the EOF token
parsed_statement(statements, r) ==
    IF r.err # "" THEN [err |-> r.err, statements |-> statements]
    ELSE parse(r.tokens, r.current, Append(statements, r.expr))

parse(tokens, current, statements) ==
    IF tokens[current].type = "EOF" THEN [err |-> "", statements |-> statements]
    ELSE parsed_statement(statements, expression(tokens, current))

\* What a method of the Interpreter leaves: the exception it raised if any
\* and the value it returns
Value(v) == [err |-> "", v |-> v]

Raised(err) == [err |-> err, v |-> JNull]

\* Environment.system_defaults: the functions funcs.py registers that the
\* model has, each with its arity (-1 for None, any number of arguments)
system_defaults ==
    (<<"States", ".", "Array">> :> -1) @@ (<<"String", ".", "Trim">> :> 1)

\* str.strip() on the strings of the model
Stripped == ("hi" :> "hi") @@ (" hi " :> "hi") @@ ("hi hi " :> "hi hi")

\* IntrinsicCallable.call
call_function(name, arguments) ==
    IF name = <<"States", ".", "Array">> THEN Value(JTuple(arguments))
    \* value.strip()
    ELSE IF arguments[1].k = "str" THEN Value(JStr(Stripped[arguments[1].o[1]]))
    ELSE Raised("AttributeError")

\* Environment.get
get(name, func_input_json) ==
    IF name.lexeme[1] = "$"
    THEN IF StartsWithDollarDollar(name.lexeme)
         THEN get_jsonpath_value(EmptyObj, Tail(name.lexeme))
         ELSE get_jsonpath_value(func_input_json, name.lexeme)
    ELSE IF name.lexeme \in DOMAIN system_defaults
    THEN Value(Callable(name.lexeme))
    ELSE Raised("RuntimeError")

IsNumber(v) == v.k \in {"num", "dec"}

\* a number in tenths
Tenths(v) == IF v.k = "dec" THEN v.n ELSE 10 * v.n

\* left - right, left / right, left * right, left + right of Python on two
\* numbers, an int and a Decimal giving a Decimal.  Decimals are kept to the
\* tenth.
arithmetic(op, left, right) ==
    IF op = "SLASH"
    THEN IF Tenths(right) = 0 THEN Raised("ZeroDivisionError")
         ELSE Value(JDec((10 * Tenths(left)) \div Tenths(right)))
    ELSE IF left.k = "num" /\ right.k = "num"
    THEN Value(JNum(CASE op = "MINUS" -> left.n - right.n
                      [] op = "STAR"  -> left.n * right.n
                      [] OTHER        -> left.n + right.n))
    ELSE Value(JDec(CASE op = "MINUS" -> Tenths(left) - Tenths(right)
                      [] op = "STAR"  -> (Tenths(left) * Tenths(right)) \div 10
                      [] OTHER        -> Tenths(left) + Tenths(right)))

RECURSIVE Repeated(_, _)
\* text * n of Python
Repeated(text, n) == IF n <= 0 THEN "" ELSE text \o Repeated(text, n - 1)

\* Interpreter.visit_binary_expr on the values of the two operands
binary(op, l, r) ==
    IF l.err # "" THEN l
    ELSE IF r.err # "" THEN r
    ELSE IF op = "PLUS"
    \* isinstance(left, type(right))
    THEN IF l.v.k # r.v.k THEN Raised("RuntimeError")
         ELSE IF IsNumber(l.v) THEN arithmetic(op, l.v, r.v)
         ELSE IF l.v.k = "str" THEN Value(JStr(l.v.o[1] \o r.v.o[1]))
         ELSE IF l.v.k \in {"list", "tuple"}
         THEN Value([l.v EXCEPT !.o = @ \o r.v.o])
         ELSE Raised("TypeError")
    ELSE IF IsNumber(l.v) /\ IsNumber(r.v) THEN arithmetic(op, l.v, r.v)
    \* an int times a str, a str times an int: the str repeated
    ELSE IF op = "STAR" /\ l.v.k = "num" /\ r.v.k = "str"
    THEN Value(JStr(Repeated(r.v.o[1], l.v.n)))
    ELSE IF op = "STAR" /\ l.v.k = "str" /\ r.v.k = "num"
    THEN Value(JStr(Repeated(l.v.o[1], r.v.n)))
    ELSE Raised("TypeError")

\* Interpreter.visit_unary_expr on the value of the operand
minus(r) ==
    IF r.err # "" THEN r
    ELSE IF r.v.k # "dec" THEN Raised("RuntimeError")
    ELSE Value(JDec(0 - r.v.n))

\* Interpreter.visit_call_expr once the callee and the arguments have their
\* values
call_callee(callee, arguments) ==
    IF callee.err # "" THEN callee
    ELSE IF arguments.err # "" THEN Raised(arguments.err)
    \* callee.arity()
    ELSE IF callee.v.k # "callable" THEN Raised("AttributeError")
    ELSE IF system_defaults[callee.v.o] # -1
            /\ Len(arguments.v) # system_defaults[callee.v.o]
    THEN Raised("RuntimeError")
    ELSE call_function(callee.v.o, arguments.v)

RECURSIVE evaluate(_, _)
RECURSIVE evaluate_arguments(_, _, _)
\* the loop of visit_call_expr over expr.arguments, r being the value of the
\* argument just evaluated
evaluated_argument(arguments, func_input_json, values, r) ==
    IF r.err # "" THEN r
    ELSE evaluate_arguments(Tail(arguments), func_input_json, Append(values, r.v))

evaluate_arguments(arguments, func_input_json, values) ==
    IF arguments = <<>> THEN Value(values)
    ELSE evaluated_argument(arguments, func_input_json, values,
                            evaluate(Head(arguments), func_input_json))

\* Interpreter.visit_call_expr
visit_call_expr(expr, func_input_json) ==
    call_callee(evaluate(expr.callee, func_input_json),
           evaluate_arguments(expr.arguments, func_input_json, <<>>))

\* Interpreter.evaluate: expr.accept(self)
evaluate(expr, func_input_json) ==
    CASE expr.node = "Literal"  -> Value(expr.value)
      [] expr.node = "Grouping" -> evaluate(expr.expression, func_input_json)
      [] expr.node = "Unary"    -> minus(evaluate(expr.right, func_input_json))
      [] expr.node = "Binary"   ->
            binary(expr.operator.type, evaluate(expr.left, func_input_json),
                   evaluate(expr.right, func_input_json))
      [] expr.node = "Variable" -> get(expr.name, func_input_json)
      [] OTHER                  -> visit_call_expr(expr, func_input_json)

\* What the evaluation of a ".$" value leaves: the exception raised if any,
\* the value, and the part of the program that raised or returned it
Evaluated(r, by) == [err |-> r.err, v |-> r.v, by |-> by]

\* ifunc_name = func_call.expression.callee.name.lexeme: only a Variable has
\* a name
ifunc_name(func_call, result) ==
    IF result.err # "" THEN Evaluated(result, "interpreter")
    ELSE IF func_call.callee.node # "Variable"
    THEN Evaluated(Raised("AttributeError"), "value_from_intrinsic_func")
    ELSE Evaluated(result, "value_from_intrinsic_func")

\* interpreter.visit_call_expr(func_call.expression): it reads expr.callee,
\* which only a Call has
interpret(func_call, state_input) ==
    IF func_call.node # "Call" THEN Evaluated(Raised("AttributeError"), "interpreter")
    ELSE ifunc_name(func_call, visit_call_expr(func_call, state_input))

\* func_call = Parser(tokens).parse()[0]
first_statement(parsed, state_input) ==
    IF parsed.err # "" THEN Evaluated(Raised(parsed.err), "parser")
    ELSE IF parsed.statements = <<>>
    THEN Evaluated(Raised("IndexError"), "value_from_intrinsic_func")
    ELSE interpret(parsed.statements[1], state_input)

scanned(scan_result, state_input) ==
    IF scan_result.err # "" THEN Evaluated(Raised(scan_result.err), "scanner")
    ELSE first_statement(parse(scan_result.tokens, 1, <<>>), state_input)

\* WorkflowExecution.value_from_intrinsic_func; Environment takes
\* func_input_json or {}
value_from_intrinsic_func(value, state_input) ==
    scanned(scan(value, 1, <<>>),
            IF Truthy(state_input) THEN state_input ELSE EmptyObj)

\* evaluate_payload_template: the new value of a field whose name ends in
\* ".$", context being self.current_state
payload_value(value, state_input, context) ==
    IF StartsWithDollar(value)
    THEN IF StartsWithDollarDollar(value)
         THEN Evaluated(get_jsonpath_value(context, Tail(value)), "get_jsonpath_value")
         ELSE Evaluated(get_jsonpath_value(state_input, value), "get_jsonpath_value")
    ELSE value_from_intrinsic_func(value, state_input)

(***************************************************************************)
(* Workflow definitions.  A state is a record holding exactly the fields   *)
(* its JSON object declares.  A payload template is a function from output *)
(* key to an entry: dyn says that the template key ended in ".$" and path  *)
(* is then its value, a JSONPath or an intrinsic expression; otherwise lit *)
(* is the literal value.                                                   *)
(***************************************************************************)
Lit(v) == [dyn |-> FALSE, path |-> <<>>, lit |-> v]

\* A template key as it is written is a sequence of characters.
\* param.endswith(".$")
endswith_dot_dollar(param) ==
    Len(param) >= 2 /\ param[Len(param) - 1] = "." /\ param[Len(param)] = "$"

RECURSIVE rstrip(_, _)
\* str.rstrip(chars): the characters of the set chars are taken off the end
\* for as long as there is one
rstrip(param, chars) ==
    IF param # <<>> /\ param[Len(param)] \in chars
    THEN rstrip(SubSeq(param, 1, Len(param) - 1), chars)
    ELSE param

\* the key evaluate_payload_template writes for the template key param:
\* output[param.rstrip(".$")] for a key ending in ".$", output[param] else
output_key(param) ==
    IF endswith_dot_dollar(param) THEN rstrip(param, {".", "$"}) ELSE param

\* the keys of the dict evaluate_payload_template returns for a template
\* with the keys params
output_keys(params) == {output_key(param) : param \in params}

Dyn(p) == [dyn |-> TRUE, path |-> p, lit |-> JNull]

\* a Pass state whose Parameters hold the ".$" value `value`
WfParameters(value) ==
    [StartAt |-> "A",
     States |-> [A |-> [Type |-> "Pass", Parameters |-> [v |-> Dyn(value)],
                        End |-> TRUE]]]

\* The workflow definitions the lookup helper can return, by workflow id
Defs ==
    [
     \* Task then Pass, the task's result grafted at $.r
     task |->
        [StartAt |-> "A",
         States |-> [A |-> [Type |-> "Task", Resource |-> "node.a",
                            ResultPath |-> <<"$", "r">>, Next |-> "B"],
                     B |-> [Type |-> "Pass", End |-> TRUE]]],
     \* a Pass state only
     pass |->
        [StartAt |-> "A", States |-> [A |-> [Type |-> "Pass", End |-> TRUE]]],
     \* one rule and a Default
     choice |->
        [StartAt |-> "C",
         States |-> [C |-> [Type |-> "Choice",
                            Choices |-> <<[Variable |-> <<"$", "n">>,
                                           NumericGreaterThanEquals |-> 10,
                                           Next |-> "Big"]>>,
                            Default |-> "Small"],
                     Big |-> [Type |-> "Pass", End |-> TRUE],
                     Small |-> [Type |-> "Pass", End |-> TRUE]]],
     \* two rules that can both be true, no Default; the branches run a task
     order |->
        [StartAt |-> "C",
         States |-> [C |-> [Type |-> "Choice",
                            Choices |-> <<[Variable |-> <<"$", "n">>,
                                           NumericGreaterThanEquals |-> 10,
                                           Next |-> "Big"],
                                          [Not |-> [Variable |-> <<"$", "n">>,
                                                    NumericLessThan |-> 3],
                                           Next |-> "Mid"]>>],
                     Big |-> [Type |-> "Task", Resource |-> "node.big", End |-> TRUE],
                     Mid |-> [Type |-> "Pass", End |-> TRUE]]],
     \* a second rule that raises when it is evaluated (it names no comparator)
     choiceraise |->
        [StartAt |-> "C",
         States |-> [C |-> [Type |-> "Choice",
                            Choices |-> <<[Variable |-> <<"$", "n">>,
                                           NumericGreaterThanEquals |-> 10,
                                           Next |-> "Big"],
                                          [Variable |-> <<"$", "n">>, Next |-> "Mid"]>>,
                            Default |-> "Small"],
                     Big |-> [Type |-> "Pass", End |-> TRUE],
                     Mid |-> [Type |-> "Pass", End |-> TRUE],
                     Small |-> [Type |-> "Pass", End |-> TRUE]]],
     \* IsPresent on a member the input may lack
     present |->
        [StartAt |-> "C",
         States |-> [C |-> [Type |-> "Choice",
                            Choices |-> <<[Variable |-> <<"$", "n">>,
                                           IsPresent |-> TRUE,
                                           Next |-> "Big"]>>,
                            Default |-> "Small"],
                     Big |-> [Type |-> "Pass", End |-> TRUE],
                     Small |-> [Type |-> "Pass", End |-> TRUE]]],
     \* a Pass with a Result grafted at $.r, then a Task
     passresult |->
        [StartAt |-> "A",
         States |-> [A |-> [Type |-> "Pass",
                            Result |-> [y |-> Lit(JNum(2))],
                            ResultPath |-> <<"$", "r">>, Next |-> "B"],
                     B |-> [Type |-> "Task", Resource |-> "node.b", End |-> TRUE]]],
     \* a Task whose ResultPath does not begin with "$"
     badtask |->
        [StartAt |-> "A",
         States |-> [A |-> [Type |-> "Task", Resource |-> "node.a",
                            ResultPath |-> <<"r">>, Next |-> "B"],
                     B |-> [Type |-> "Pass", End |-> TRUE]]],
     \* a Pass with a Result whose ResultPath begins with "$$"
     badpassresult |->
        [StartAt |-> "A",
         States |-> [A |-> [Type |-> "Pass",
                            Result |-> [y |-> Lit(JNum(2))],
                            ResultPath |-> <<"$", "$", "r">>, Next |-> "B"],
                     B |-> [Type |-> "Pass", End |-> TRUE]]],
     \* a Pass without a Result whose ResultPath does not begin with "$"
     badpass |->
        [StartAt |-> "A",
         States |-> [A |-> [Type |-> "Pass", ResultPath |-> <<"r">>, Next |-> "B"],
                     B |-> [Type |-> "Pass", End |-> TRUE]]],
     \* a Next that names no state
     unknownnext |->
        [StartAt |-> "A",
         States |-> [A |-> [Type |-> "Pass", Next |-> "Zed"],
                     B |-> [Type |-> "Pass", End |-> TRUE]]],
     \* a StartAt that names no state
     unknownstart |->
        [StartAt |-> "Zed", States |-> [A |-> [Type |-> "Pass", End |-> TRUE]]],
     \* no StartAt
     nostartat |-> [States |-> [A |-> [Type |-> "Pass", End |-> TRUE]]],
     \* two Tasks, the result of the first grafted below $.a
     nested |->
        [StartAt |-> "A",
         States |-> [A |-> [Type |-> "Task", Resource |-> "node.a",
                            ResultPath |-> <<"$", "a", "b">>, Next |-> "B"],
                     B |-> [Type |-> "Task", Resource |-> "node.b", End |-> TRUE]]],
     \* two Pass states that name each other, no End
     cyclepass |->
        [StartAt |-> "A",
         States |-> [A |-> [Type |-> "Pass", Next |-> "B"],
                     B |-> [Type |-> "Pass", Next |-> "A"]]],
     \* a Task and a Pass that name each other, no End
     cycletask |->
        [StartAt |-> "A",
         States |-> [A |-> [Type |-> "Task", Resource |-> "node.a", Next |-> "B"],
                     B |-> [Type |-> "Pass", Next |-> "A"]]],
     \* a Choice whose branches come back to it, no End
     cyclechoice |->
        [StartAt |-> "C",
         States |-> [C |-> [Type |-> "Choice",
                            Choices |-> <<[Variable |-> <<"$", "n">>,
                                           NumericGreaterThanEquals |-> 10,
                                           Next |-> "C"]>>,
                            Default |-> "B"],
                     B |-> [Type |-> "Pass", Next |-> "C"]]],
     \* a Task whose ResultPath is the root
     rootpath |->
        [StartAt |-> "A",
         States |-> [A |-> [Type |-> "Task", Resource |-> "node.a",
                            ResultPath |-> <<"$">>, Next |-> "B"],
                     B |-> [Type |-> "Pass", End |-> TRUE]]],
     \* a Task with Parameters, ResultSelector, a nested ResultPath and OutputPath
     shape |->
        [StartAt |-> "A",
         States |-> [A |-> [Type |-> "Task", Resource |-> "node.a",
                            Parameters |-> [p |-> Dyn(<<"$", "x">>), q |-> Lit(JNum(5))],
                            ResultSelector |-> [s |-> Dyn(<<"$", "x">>)],
                            ResultPath |-> <<"$", "a", "b">>,
                            OutputPath |-> <<"$", "a">>,
                            Next |-> "B"],
                     B |-> [Type |-> "Pass", End |-> TRUE]]],
     \* workflow_id -> definition
     \* a Choice whose rule names a state that is not in States
     choiceunknown |->
        [StartAt |-> "C",
         States |-> [C |-> [Type |-> "Choice",
                            Choices |-> <<[Variable |-> <<"$", "n">>,
                                           NumericGreaterThanEquals |-> 10,
                                           Next |-> "Zed"]>>,
                            Default |-> "Small"],
                     Small |-> [Type |-> "Pass", End |-> TRUE]]],
     \* a Pass with neither End nor Next, in a definition with a state "None"
     nonext |->
        [StartAt |-> "A",
         States |-> [A |-> [Type |-> "Pass"],
                     None |-> [Type |-> "Pass", End |-> TRUE]]],
     \* a Task with neither End nor Next
     nonexttask |->
        [StartAt |-> "A",
         States |-> [A |-> [Type |-> "Task", Resource |-> "node.a"],
                     B |-> [Type |-> "Pass", End |-> TRUE]]],
     \* a Choice whose second rule declares End
     choiceend |->
        [StartAt |-> "C",
         States |-> [C |-> [Type |-> "Choice",
                            Choices |-> <<[Variable |-> <<"$", "n">>,
                                           NumericGreaterThanEquals |-> 10,
                                           Next |-> "Big"],
                                          [Variable |-> <<"$", "n">>,
                                           NumericLessThan |-> 3,
                                           End |-> TRUE, Next |-> "Small"]>>,
                            Default |-> "Small"],
                     Big |-> [Type |-> "Pass", End |-> TRUE],
                     Small |-> [Type |-> "Pass", End |-> TRUE]]],
     \* a Choice whose first rule declares End
     choiceendfirst |->
        [StartAt |-> "C",
         States |-> [C |-> [Type |-> "Choice",
                            Choices |-> <<[Variable |-> <<"$", "n">>,
                                           NumericLessThan |-> 3,
                                           End |-> TRUE, Next |-> "Small"],
                                          [Variable |-> <<"$", "n">>,
                                           NumericGreaterThanEquals |-> 10,
                                           Next |-> "Big"]>>,
                            Default |-> "Small"],
                     Big |-> [Type |-> "Pass", End |-> TRUE],
                     Small |-> [Type |-> "Pass", End |-> TRUE]]],
     \* a Pass with a Result grafted at $.r and the OutputPath $.r, then a Pass
     passoutput |->
        [StartAt |-> "A",
         States |-> [A |-> [Type |-> "Pass",
                            Result |-> [y |-> Lit(JNum(2))],
                            ResultPath |-> <<"$", "r">>,
                            OutputPath |-> <<"$", "r">>, Next |-> "B"],
                     B |-> [Type |-> "Pass", End |-> TRUE]]],
     \* a Pass whose Result holds a list, then a Pass that grafts its Result
     \* at the first element of that list
     listresult |->
        [StartAt |-> "A",
         States |-> [A |-> [Type |-> "Pass",
                            Result |-> [a |-> Lit(JLiteral(1, <<JNum(1)>>))],
                            Next |-> "B"],
                     B |-> [Type |-> "Pass", Result |-> [y |-> Lit(JNum(2))],
                            ResultPath |-> <<"$", "a", "[0]">>, End |-> TRUE]]],
     \* States.Array($.x,2)
     intrinsic |->
        WfParameters(<<"States", ".", "Array", "(", "$", "x", ",", "2", ")">>),
     \* States.Array(#): a character the scanner does not know
     scannererror |-> WfParameters(<<"States", ".", "Array", "(", "#", ")">>),
     \* States.Array(2 without its closing parenthesis
     parsererror |-> WfParameters(<<"States", ".", "Array", "(", "2">>),
     \* Nope(2): no function of that name
     interpretererror |-> WfParameters(<<"Nope", "(", "2", ")">>)]

\* The lookup helper's table: initial_node_id -> the workflows it returns
Lookup ==
    [n_task |-> <<"task", "task">>,
     n_passtask |-> <<"passresult", "task">>,
     n_badtask |-> <<"badtask", "task">>,
     n_badpass |-> <<"badpassresult", "badpass">>,
     n_unknown |-> <<"unknownnext", "unknownstart", "pass">>,
     n_choice |-> <<"choice", "choiceraise">>,
     n_order |-> <<"order", "rootpath">>,
     n_present |-> <<"present">>,
     n_shape |-> <<"shape", "task">>,
     n_gap |-> <<"nonext", "nonexttask">>,
     n_choiceend |-> <<"choiceend", "choiceendfirst", "choiceunknown">>,
     n_intrinsic |-> <<"intrinsic", "scannererror", "parsererror",
                       "interpretererror">>,
     n_passoutput |-> <<"passoutput", "pass">>,
     n_lists |-> <<"listresult", "listresult">>,
     n_none |-> <<>>]

NodeIds == DOMAIN Lookup

\* workflow_input values process_func can return
Inputs ==
    {JObj([x |-> JNum(1)]), JObj([n |-> JNum(12)]), JObj([n |-> JNum(3)]),
     JObj([n |-> JNum(1)]), EmptyObj}

\* What the awaited executor.execute / json.loads can produce: a JSON
\* document, or an exception
ExecOutcomes ==
    {[raised |-> FALSE, json |-> TRUE, v |-> JObj([y |-> JNum(2)])],
     [raised |-> FALSE, json |-> TRUE, v |-> JNum(7)],
     [raised |-> FALSE, json |-> TRUE, v |-> EmptyObj],
     \* output that json.loads rejects
     [raised |-> FALSE, json |-> FALSE, v |-> JNull],
     [raised |-> TRUE, json |-> FALSE, v |-> JNull]}

(***************************************************************************)
(* The state of the program.                                               *)
(***************************************************************************)
VARIABLES
    producer,       \* BaseTrigger.producer is set (a Kafka producer is configured)
    event,          \* the Event given to send_event: [identifier]
    phase,          \* send_event: "idle" before the call, "returned" after it
    node,           \* send_event's initial_node_id, "<unset>" until process_func returns
    calls,          \* the collaborators send_event has called
    published,      \* the messages handed to producer.produce
    scheduled,      \* the coroutines handed to asyncio.gather, as execution indexes
    execs,          \* the WorkflowExecution objects made by initialize_workflows
    heap,           \* the dicts that are shared by reference
    returns,        \* the number of executor calls that have come back
    probe,          \* a call of one of the helper functions, see FuncSpec
    lookup,         \* the FileSystemLookup object, see LookupSpec
    environment     \* the class Environment, see RegistrySpec

vars == <<producer, event, phase, node, calls, published, scheduled, execs, heap,
          returns, probe, lookup, environment>>

\* Python's None, and str(None)
PyNone == "<None>"

str(v) == IF v = PyNone THEN "None" ELSE v

\* workflow_input is the first dict on the heap
SharedRef == 1

(***************************************************************************)
(* A WorkflowExecution and the position of its coroutine.                  *)
(*   status  "scheduled" (start() not yet run), "awaiting" (suspended in   *)
(*           executor.execute), "returned" (start() returned), "failed"    *)
(*           (an exception left start())                                   *)
(*   task, inp, pin   the frame suspended in execute_state: state_name,    *)
(*           state_input (a reference) and processed_input                 *)
(*   stack   state_input of the Choice frames of execute_state that wait   *)
(*           for state_process_choice to return, innermost first           *)
(*   frames  the execute_state calls on the coroutine's call stack: a      *)
(*           state is executed by a call made from the call of the state   *)
(*           before it, which returns only when the last state has ended   *)
(*   err, msg   the exception that left start()                            *)
(*   trace, assigns   history: what the execution did, and the number of   *)
(*           assignments to current_state_name                             *)
(***************************************************************************)
NewExecution(workflow_id, execution_id) ==
    [execution_id |-> execution_id, workflow_id |-> workflow_id,
     current_state_name |-> PyNone, status |-> "scheduled",
     task |-> PyNone, inp |-> 0, pin |-> JNull, stack |-> <<>>, frames |-> 0,
     err |-> "", msg |-> "", trace |-> <<>>, assigns |-> 0,
     \* the heap cells of the list literals of workflow_definition
     lits |-> <<>>,
     \* original_input: a dict of its own that holds the values of
     \* workflow_input (a dict among them is the same object in both), and
     \* history: the JSON document it was when the execution was made
     original_input |-> JNull, created |-> JNull,
     \* history: the Task states whose executor call raised or gave no JSON
     absorbed |-> <<>>,
     \* history: a cancellation was delivered to the coroutine
     cancelled |-> FALSE]

\* The operators of the driver work on a record m: h is the heap, x the
\* execution, r the reference an operator returns.
Ok(m) == m.x.status # "failed"

Raise(m, kind, message) ==
    [m EXCEPT !.x.status = "failed", !.x.err = kind, !.x.msg = message]

Alloc(m, v) == [m EXCEPT !.h = Append(m.h, v), !.r = Len(m.h) + 1]

RECURSIVE Resolve(_, _)
\* the JSON document a value holds (json.dumps), its references followed
Resolve(h, v) ==
    IF v.k = "ref" THEN Resolve(h, h[v.n])
    ELSE IF v.k = "obj" THEN JObj([key \in DOMAIN v.o |-> Resolve(h, v.o[key])])
    ELSE IF v.k = "list" THEN JList([i \in DOMAIN v.o |-> Resolve(h, v.o[i])])
    ELSE v

\* history: what the coroutine did, as long as no exception has been raised
Log(m, ev, st, val) ==
    IF m.x.status = "failed" THEN m
    ELSE [m EXCEPT !.x.trace =
             Append(@, [ev |-> ev, st |-> st, val |-> Resolve(m.h, val)])]

workflow_definition(m) == Defs[m.x.workflow_id]

get_state(m, state_name) == workflow_definition(m).States[state_name]

current_state(m) == get_state(m, m.x.current_state_name)

\* WkflwExecutionException and its subclasses
ExecutionErrors ==
    {"WkflwExecutionException", "WkflwExecutionAlreadyStartedError",
     "WkflwStateError", "WkflwStateNotFoundError"}

\* the assignment without the membership check
set_current_state_name_unchecked(m, state_name) ==
    [m EXCEPT !.x.current_state_name = state_name, !.x.assigns = @ + 1]

\* the name assigned before the membership check
set_current_state_name_late(m, state_name) ==
    IF state_name \notin DOMAIN workflow_definition(m).States
    THEN Raise([m EXCEPT !.x.current_state_name = state_name],
               "WkflwStateNotFoundError", "state not found in the definition")
    ELSE [m EXCEPT !.x.current_state_name = state_name, !.x.assigns = @ + 1]

set_current_state_name(m, state_name) ==
    IF state_name \notin DOMAIN workflow_definition(m).States
    THEN Raise(m, "WkflwStateNotFoundError", "state not found in the definition")
    ELSE [m EXCEPT !.x.current_state_name = state_name, !.x.assigns = @ + 1]

(***************************************************************************)
(* Choice rules                                                            *)
(***************************************************************************)
Bool(b) == [err |-> "", b |-> b]

Exc(kind) == [err |-> kind, b |-> FALSE]

\* Decimal(str(value)) <op> Decimal(operand): fails unless value is a number
Numeric(value, b) == IF value.k = "num" THEN Bool(b) ELSE Exc("InvalidOperation")

\* the comparator chain of evaluate_choice_branch
compare(branch, value, is_value_present) ==
    LET has(f) == f \in DOMAIN branch
    IN  IF has("IsPresent") THEN Bool(is_value_present)
        ELSE IF has("NumericGreaterThan")
        THEN Numeric(value, value.n >= branch.NumericGreaterThan)
        ELSE IF has("NumericGreaterThanEquals")
        THEN Numeric(value, value.n >= branch.NumericGreaterThanEquals)
        ELSE IF has("NumericLessThan")
        THEN Numeric(value, value.n < branch.NumericLessThan)
        ELSE IF has("NumericLessThanEquals")
        THEN IF value.k # "num" THEN Exc("InvalidOperation")
             ELSE IF ~has("NumericLessThan") THEN Exc("KeyError")
             ELSE Bool(value.n < branch.NumericLessThan)
        ELSE IF has("NumericEquals")
        THEN Numeric(value, value.n = branch.NumericEquals)
        ELSE IF has("IsNull") THEN Bool(value.k = "null")
        ELSE IF has("IsNumeric") THEN Bool(value.k = "num")
        ELSE Exc("Exception")

RECURSIVE evaluate_choice_branch(_, _)
RECURSIVE and_loop(_, _, _)
\* for and_branch in branch["And"]
and_loop(branches, state_input, i) ==
    IF i > Len(branches) THEN Bool(TRUE)
    ELSE IF evaluate_choice_branch(branches[i], state_input).err # ""
    THEN evaluate_choice_branch(branches[i], state_input)
    ELSE IF ~evaluate_choice_branch(branches[i], state_input).b THEN Bool(FALSE)
    ELSE and_loop(branches, state_input, i + 1)

\* not self.evaluate_choice_branch(branch["Not"])
negate(r) == IF r.err # "" THEN r ELSE Bool(~r.b)

\* a leaf rule, got being get_jsonpath_value(state_input, Variable)
leaf(branch, got) ==
    \* except ValueError: _is_value_present = False
    IF got.err \notin {"", "ValueError"} THEN Exc(got.err)
    ELSE IF got.err = "ValueError" /\ "IsPresent" \notin DOMAIN branch
    THEN Exc("WkflwExecutionException")
    ELSE compare(branch, got.v, got.err # "ValueError")

evaluate_choice_branch(branch, state_input) ==
    IF "And" \in DOMAIN branch THEN and_loop(branch.And, state_input, 1)
    ELSE IF "Not" \in DOMAIN branch
    THEN negate(evaluate_choice_branch(branch.Not, state_input))
    ELSE IF "Variable" \notin DOMAIN branch THEN Exc("KeyError")
    ELSE leaf(branch,
              get_jsonpath_value(state_input,
                                 IF StartsWithDollarDollar(branch.Variable)
                                 THEN Tail(branch.Variable) ELSE branch.Variable))

\* rule i of the loop, result being evaluate_choice_branch of it: the name
\* it gives, PyNone when the rule is not true
rule_outcome(choice, result) ==
    IF result.err # "" THEN [err |-> result.err, next |-> PyNone]
    ELSE IF ~result.b THEN [err |-> "", next |-> PyNone]
    ELSE IF "Next" \notin DOMAIN choice THEN [err |-> "KeyError", next |-> PyNone]
    ELSE [err |-> "", next |-> choice.Next]

\* the loop without its break: the last true rule gives the name
RECURSIVE choice_loop_nobreak(_, _, _, _)
choice_loop_nobreak(state, state_input, i, next_state_name) ==
    IF i > Len(state.Choices) THEN [err |-> "", next |-> next_state_name]
    ELSE IF "End" \in DOMAIN state.Choices[i]
    THEN [err |-> "WkflwExecutionException", next |-> PyNone]
    ELSE choice_loop_nobreak(
             state, state_input, i + 1,
             IF evaluate_choice_branch(state.Choices[i], state_input).b
             THEN state.Choices[i].Next ELSE next_state_name)

\* The loop of state_process_choice over Choices from rule i on: the name
\* to go to (PyNone when neither a rule nor Default gives one), or the
\* exception raised.
RECURSIVE choice_loop(_, _, _, _)
RECURSIVE choice_step(_, _, _, _, _)
choice_step(state, state_input, i, next_state_name, outcome) ==
    IF outcome.err # "" \/ outcome.next # PyNone THEN outcome
    ELSE choice_loop(state, state_input, i + 1, next_state_name)

choice_loop(state, state_input, i, next_state_name) ==
    IF i > Len(state.Choices) THEN [err |-> "", next |-> next_state_name]
    ELSE IF "End" \in DOMAIN state.Choices[i]
    THEN [err |-> "WkflwExecutionException", next |-> PyNone]
    ELSE choice_step(state, state_input, i, next_state_name,
                     rule_outcome(state.Choices[i],
                                  evaluate_choice_branch(state.Choices[i],
                                                         state_input)))

(***************************************************************************)
(* Input and output shaping                                                *)
(***************************************************************************)
\* self.current_state as a JSON object: its fields that hold a string
context_object(state) ==
    JObj([f \in DOMAIN state \cap {"Type", "Next", "Resource", "Default"} |->
            JStr(state[f])])

\* output[param] = value: a list of the definition is stored by reference
referenced_value(m, value) ==
    IF value.k = "literal" THEN JRef(m.x.lits[value.n]) ELSE value

\* A new dict with every ".$" entry resolved against state_input (a value)
evaluate_payload_template(m, payload_template, state_input) ==
    LET found(param) == payload_value(payload_template[param].path, state_input,
                                      context_object(current_state(m)))
        failing == {param \in DOMAIN payload_template :
                        payload_template[param].dyn /\ found(param).err # ""}
    IN  IF failing # {}
        THEN Raise(m, found(CHOOSE param \in failing : TRUE).err,
                   found(CHOOSE param \in failing : TRUE).by)
        ELSE Alloc(m, JObj([param \in DOMAIN payload_template |->
                                IF payload_template[param].dyn
                                THEN found(param).v
                                ELSE referenced_value(m, payload_template[param].lit)]))

\* r: the effective input (the raw input itself without Parameters)
get_processed_state_input(m, state, original_state_input) ==
    IF "Parameters" \notin DOMAIN state
    THEN [m EXCEPT !.r = original_state_input]
    ELSE evaluate_payload_template(m, state.Parameters, m.h[original_state_input])

\* set_jsonpath_value(input_ or {}, output, result_path, use_copy=False),
\* m.r being the reference of `input_ or {}` and set the result of the call
graft(m, set) ==
    IF set.err # "" THEN Raise(m, set.err, "set_jsonpath_value")
    ELSE IF set.same THEN [m EXCEPT !.h[m.r] = set.data]
    ELSE Alloc(m, set.ret)

\* input_ or {}
input_or_empty(m, input_) ==
    IF Truthy(m.h[input_]) THEN [m EXCEPT !.r = input_] ELSE Alloc(m, EmptyObj)

RECURSIVE referenced(_, _)
\* the list object the walk along `fields` goes through, with the fields
\* that remain; n = 0 when it goes through none
referenced(data, fields) ==
    IF Len(fields) < 2 \/ ~HasKey(data, Head(fields))
    THEN [n |-> 0, fields |-> <<>>]
    ELSE IF data.o[Head(fields)].k = "ref"
    THEN [n |-> data.o[Head(fields)].n, fields |-> Tail(fields)]
    ELSE referenced(data.o[Head(fields)], Tail(fields))

\* update_or_create on a path that goes through list object `through.n`:
\* the list is updated in place, `input_ or {}` (m.r) is what is returned
graft_through(m, output, through) ==
    [m EXCEPT !.h[through.n] = update_or_create(@, through.fields, m.h[output])]

graft_at(m, output, result_path) ==
    IF referenced(m.h[m.r], PathFields(result_path)).n # 0
    THEN graft_through(m, output, referenced(m.h[m.r], PathFields(result_path)))
    ELSE graft(m, set_jsonpath_value(m.h[m.r], m.h[output], result_path, FALSE))

\* input_ and output are references; r: the reference returned
process_result_path(m, input_, output) ==
    IF "ResultPath" \notin DOMAIN current_state(m)
    THEN [m EXCEPT !.r = output]
    ELSE IF StartsWithDollarDollar(current_state(m).ResultPath)
    THEN Raise(m, "WkflwExecutionException",
               "ResultPath must not access the context object")
    ELSE IF ~StartsWithDollar(current_state(m).ResultPath)
    THEN Raise(m, "WkflwExecutionException", "ResultPath must be a JSONPath value")
    ELSE graft_at(input_or_empty(m, input_), output, current_state(m).ResultPath)

\* if "ResultSelector" in self.current_state
result_selector(m, input_, output) ==
    IF "ResultSelector" \notin DOMAIN current_state(m)
    THEN [m EXCEPT !.r = output]
    ELSE IF IsObj(m.h[output])
    THEN evaluate_payload_template(m, current_state(m).ResultSelector, m.h[input_])
    \* the selector is handed to the JSONPath parser, which takes text
    ELSE Raise(m, "TypeError", "ResultSelector is not a JSONPath")

\* output = await self.process_result_path(input_=input_, output=output)
result_path(m, input_) ==
    IF Ok(m) THEN process_result_path(m, input_, m.r) ELSE m

\* got being get_jsonpath_value(output, OutputPath); the selection is the
\* output itself for the root path
selection(m, got) ==
    IF got.err # "" THEN Raise(m, got.err, "OutputPath")
    ELSE IF PathFields(current_state(m).OutputPath) = <<>> THEN m
    ELSE Alloc(m, got.v)

\* if "OutputPath" in self.current_state
output_path(m) ==
    IF ~Ok(m) \/ "OutputPath" \notin DOMAIN current_state(m) THEN m
    ELSE selection(m, get_jsonpath_value(m.h[m.r], current_state(m).OutputPath))

\* history: the effective output of the current state
Shaped(m) ==
    IF Ok(m) THEN Log(m, "shaped", m.x.current_state_name, m.h[m.r]) ELSE m

get_processed_output(m, input_, output) ==
    Shaped(output_path(result_path(result_selector(m, input_, output), input_)))

(***************************************************************************)
(* The driver                                                              *)
(***************************************************************************)
RECURSIVE execute_state(_, _, _)
RECURSIVE execute_next_state(_, _)
RECURSIVE state_process_choice(_, _, _)

\* await self.execute_state(self.current_state_name, ...) once the name is set
enter(m, state_input) ==
    IF Ok(m) THEN execute_state(m, m.x.current_state_name, state_input) ELSE m

execute_next_state(m, state_input) ==
    IF "End" \in DOMAIN current_state(m) /\ current_state(m).End
    THEN [m EXCEPT !.x.status = "done"]
    ELSE enter(set_current_state_name(
                   m, str(IF "Next" \in DOMAIN current_state(m)
                          THEN current_state(m).Next ELSE PyNone)),
               state_input)

\* state_process_choice after the loop, chosen being its outcome
transition(m, chosen, state_input) ==
    IF chosen.err # "" THEN Raise(m, chosen.err, "choice rule")
    ELSE IF chosen.next \in {PyNone, ""}
    THEN Raise(m, "WkflwExecutionException", "States.NoChoiceMatched")
    ELSE enter(Log(set_current_state_name(m, chosen.next), "choice",
                   m.x.current_state_name, m.h[state_input]),
               state_input)

state_process_choice(m, state, state_input) ==
    transition(m,
               choice_loop(state, m.h[state_input], 1,
                           IF "Default" \in DOMAIN state THEN state.Default
                           ELSE PyNone),
               state_input)

\* await self.execute_next_state(output), m.r being output
next_with_output(m) == IF Ok(m) THEN execute_next_state(m, m.r) ELSE m

next_with_raw_output(m, raw_output) ==
    IF Ok(m) THEN execute_next_state(m, raw_output) ELSE m

\* the raw output handed on without get_processed_output
task_completed_unshaped(m, state_input, raw_output) ==
    next_with_raw_output(get_processed_output(m, state_input, raw_output), raw_output)

\* execute_state from the return of state_process_task on: the awaited
\* executor gave raw_output (a reference)
task_completed(m, state_input, raw_output) ==
    next_with_output(get_processed_output(m, state_input, raw_output))

\* await executor.execute(...): the coroutine is suspended, m.r being
\* processed_input
suspend(m, state_name, state_input) ==
    Log([m EXCEPT !.x.status = "awaiting", !.x.task = state_name,
                  !.x.inp = state_input, !.x.pin = m.h[m.r]],
        "call", state_name, m.h[m.r])

\* a Choice frame that executes the current state once more when
\* state_process_choice has returned
choice_returned_reenters(m, state_input) ==
    IF m.x.status = "done"
    THEN enter([m EXCEPT !.x.stack = Tail(@), !.x.status = "scheduled"],
               state_input)
    ELSE m

\* case "Choice", after state_process_choice has returned or raised
choice_returned(m, state_input) ==
    IF m.x.status = "done"
    THEN execute_next_state([m EXCEPT !.x.stack = Tail(@)], state_input)
    ELSE m

\* process_result_path(input_=processed_input, output=result), m.r being result
pass_result_path(m, processed_input) ==
    IF Ok(m) THEN process_result_path(m, processed_input, m.r) ELSE m

\* case "Pass", m.r being processed_input
pass(m, state_name, state_input) ==
    IF "Result" \in DOMAIN current_state(m)
    THEN next_with_output(
             Shaped(pass_result_path(
                        evaluate_payload_template(m, current_state(m).Result,
                                                  m.h[m.r]),
                        m.r)))
    ELSE execute_next_state(Log(m, "shaped", state_name, m.h[state_input]),
                            state_input)

\* match state["Type"], m.r being processed_input
match_type(m, state, state_name, state_input) ==
    IF ~Ok(m) THEN m
    ELSE IF "Type" \notin DOMAIN state THEN Raise(m, "KeyError", "Type")
    ELSE IF state.Type = "Task" THEN suspend(m, state_name, state_input)
    ELSE IF state.Type = "Choice"
    THEN choice_returned(
             state_process_choice([m EXCEPT !.x.stack = <<state_input>> \o @],
                                  state, state_input),
             state_input)
    ELSE IF state.Type = "Pass" THEN pass(m, state_name, state_input)
    ELSE Raise(m, "WkflwExecutionException", "Unknown state type")

\* the nested execute_state calls the interpreter's recursion limit
\* (sys.getrecursionlimit()) leaves room for
RecursionLimit == 6

\* an execute_state that returns when the call stack is full
execute_state_returns(m, state_name, state_input) ==
    IF m.x.frames >= RecursionLimit
    THEN [m EXCEPT !.x.status = "done"]
    ELSE IF state_name \notin DOMAIN workflow_definition(m).States
    THEN Raise(m, "WkflwStateNotFoundError", "Workflow state not found")
    ELSE
    match_type(get_processed_state_input(
                   Log([m EXCEPT !.x.frames = @ + 1], "enter", state_name,
                       m.h[state_input]),
                   current_state(m), state_input),
               get_state(m, state_name), state_name, state_input)

\* `await self.execute_state(...)` is a call nested in the caller's frame:
\* the interpreter raises RecursionError at a call the stack has no room for
execute_state(m, state_name, state_input) ==
    IF m.x.frames >= RecursionLimit
    THEN Raise(m, "RecursionError", "maximum recursion depth exceeded")
    ELSE IF state_name \notin DOMAIN workflow_definition(m).States
    THEN Raise(m, "WkflwStateNotFoundError", "Workflow state not found")
    ELSE
    match_type(get_processed_state_input(
                   Log([m EXCEPT !.x.frames = @ + 1], "enter", state_name,
                       m.h[state_input]),
                   current_state(m), state_input),
               get_state(m, state_name), state_name, state_input)

\* The Choice frames of execute_state that were waiting while the coroutine
\* was suspended go on once the state they called has returned.
RECURSIVE Unwind(_)
Unwind(m) ==
    IF m.x.status # "done" \/ m.x.stack = <<>> THEN m
    ELSE Unwind(execute_next_state([m EXCEPT !.x.stack = Tail(@)], Head(m.x.stack)))

\* start without its first test
start_unguarded(m, state_input) ==
    IF "StartAt" \notin DOMAIN workflow_definition(m)
    THEN Raise(m, "WkflwExecutionException", "No StartAt defined")
    ELSE enter(set_current_state_name(m, workflow_definition(m).StartAt),
               state_input)

start(m, state_input) ==
    IF m.x.current_state_name # PyNone
    THEN Raise(m, "WkflwExecutionAlreadyStartedError", "has already started")
    ELSE IF "StartAt" \notin DOMAIN workflow_definition(m)
    THEN Raise(m, "WkflwExecutionException", "No StartAt defined")
    ELSE enter(set_current_state_name(m, workflow_definition(m).StartAt),
               state_input)

\* state_process_task without its except clause: the exception goes up
state_process_task_raises(m, outcome) ==
    IF outcome.raised \/ ~outcome.json
    THEN Raise([m EXCEPT !.x.absorbed = Append(@, m.x.task)], "Exception",
               "executor")
    ELSE Alloc(m, outcome.v)

\* state_process_task from the return of executor.execute on: the output
\* deserialized, or {} when the executor or json.loads raised
state_process_task_returns(m, outcome) ==
    IF outcome.raised \/ ~outcome.json
    THEN Alloc([m EXCEPT !.x.absorbed = Append(@, m.x.task)], EmptyObj)
    ELSE Alloc(m, outcome.v)

\* history: what state_process_task returned
Returned(m) == Log(m, "ret", m.x.task, m.h[m.r])

\* the suspended coroutine of m.x goes on, m.r being raw_output
resume(m) == Unwind(task_completed(m, m.x.inp, m.r))

\* a cancellation taken for a failure of the executor, by `except Exception`
cancel_absorbed(m) ==
    resume(Returned(state_process_task_returns(
        [m EXCEPT !.x.cancelled = TRUE],
        [raised |-> TRUE, json |-> FALSE, v |-> JNull])))

\* asyncio.CancelledError is thrown into the coroutine at `await
\* executor.execute(...)`: it is a BaseException, `except Exception` does not
\* take it, and it leaves state_process_task, execute_state and start
cancel(m) == [m EXCEPT !.x.status = "cancelled", !.x.cancelled = TRUE]

(***************************************************************************)
(* Trigger dispatch                                                        *)
(***************************************************************************)
\* the list literals of a workflow definition, in the Result and Parameters
\* of its states
Literals(definition) ==
    {lit \in UNION {UNION {{definition.States[st][f][param].lit :
                                param \in DOMAIN definition.States[st][f]} :
                            f \in {"Result", "Parameters"}
                                   \cap DOMAIN definition.States[st]} :
                    st \in DOMAIN definition.States} :
        lit.k = "literal"}

\* the n-th list literal of a definition as a list
ListLiteral(definition, n) ==
    JList((CHOOSE lit \in Literals(definition) : lit.n = n).o)

RECURSIVE ListsBefore(_, _)
\* the number of list literals of the first i of the workflows
ListsBefore(workflows, i) ==
    IF i = 0 THEN 0
    ELSE ListsBefore(workflows, i - 1) + Cardinality(Literals(Defs[workflows[i]]))

\* The executions of the workflows the lookup returns; each has a
\* definition of its own, whose list objects are in the heap after
\* workflow_input
initialize_workflows(initial_node_id, ev, workflow_input) ==
    [i \in 1..Len(Lookup[initial_node_id]) |->
        [NewExecution(Lookup[initial_node_id][i], ev.identifier) EXCEPT
            !.original_input = workflow_input,
            !.created = workflow_input,
            !.lits = [n \in 1..Cardinality(Literals(Defs[Lookup[initial_node_id][i]])) |->
                         1 + ListsBefore(Lookup[initial_node_id], i - 1) + n]]]

RECURSIVE definition_lists(_, _)
\* the list objects of the definitions of executions i.. of ex
definition_lists(ex, i) ==
    IF i > Len(ex) THEN <<>>
    ELSE [n \in DOMAIN ex[i].lits |-> ListLiteral(Defs[ex[i].workflow_id], n)]
         \o definition_lists(ex, i + 1)

\* key=event.identifier
produce_key_identifier(identifier) == identifier

\* key=event.identifier or "123TODO"
produce_key(identifier) == IF identifier # "" THEN identifier ELSE "123TODO"

\* only the first coroutine scheduled
gather_first(workflows) ==
    [j \in 1..(IF Len(workflows) > 0 THEN 1 ELSE 0) |-> [exec |-> j, ran |-> FALSE]]

\* asyncio.gather(*(w.start(workflow_input) for w in workflows)): one task
\* per coroutine, none of them run yet
gather(workflows) == [j \in 1..Len(workflows) |-> [exec |-> j, ran |-> FALSE]]

\* a gather that would cancel the other children
gather_child_failed_cancels(ex, i) ==
    [j \in DOMAIN ex |->
        IF j # i /\ ex[j].status \in {"scheduled", "awaiting"}
        THEN [ex[j] EXCEPT !.status = "cancelled"] ELSE ex[j]]

\* gather without return_exceptions: the exception of child i is handed to
\* the gather future, the other children are left alone
gather_child_failed(ex, i) == ex

\* the executions after a step of the coroutine of execution i
Settle(ex, i) ==
    IF ex[i].status = "failed" THEN gather_child_failed(ex, i) ELSE ex

\* a step of the coroutine of execution i ended in m
Commit(i, m) ==
    /\ execs' = Settle([execs EXCEPT ![i] = m.x], i)
    /\ heap' = m.h

\* the class Environment as its module defines it: system_defaults = {};
\* defined is the history of the calls of define_system_default
NoEnvironment == [system_defaults |-> <<>>, defined |-> <<>>]

\* no FileSystemLookup has been constructed
NoLookup == [heap |-> <<>>, workflows |-> <<>>, returned |-> <<>>]

\* no helper function is being called
NoCall == [fn |-> "", data |-> JNull, expr |-> <<>>, params |-> {},
           \* the node `c` of the walk in get_jsonpath_value
           c |-> [node |-> "<unset>"],
           branch |-> [Variable |-> <<>>], tokens |-> <<>>,
           called |-> FALSE, out |-> [err |-> "", v |-> JNull], keys |-> {},
           \* the object a method is called on, as it is before the call
           self |-> JNull,
           \* what a second Parser on the same list of tokens leaves
           again |-> [err |-> "<unset>"]]

Init ==
    /\ producer \in BOOLEAN
    /\ event \in {[identifier |-> "evt-1"], [identifier |-> ""]}
    /\ phase = "idle"
    /\ node = "<unset>"
    /\ calls = <<>>
    /\ published = <<>>
    /\ scheduled = <<>>
    /\ execs = <<>>
    /\ heap = <<>>
    /\ returns = 0
    /\ probe = NoCall
    /\ lookup = NoLookup
    /\ environment = NoEnvironment

\* send_event(event); process_func returns (initial_node_id, workflow_input)
SendEvent(initial_node_id, workflow_input) ==
    /\ phase = "idle"
    /\ phase' = "returned"
    /\ IF producer
       THEN /\ calls' = Append(calls, "produce")
            /\ published' = Append(published,
                                   [key |-> produce_key(event.identifier),
                                    event |-> event])
            /\ UNCHANGED <<node, scheduled, execs, heap>>
       ELSE /\ node' = initial_node_id
            /\ IF initial_node_id = PyNone
               THEN /\ calls' = Append(calls, "process_func")
                    /\ UNCHANGED <<published, scheduled, execs, heap>>
               ELSE /\ calls' = calls \o <<"process_func", "get_workflows">>
                    /\ execs' = initialize_workflows(initial_node_id, event,
                                                      workflow_input)
                    /\ heap' = <<workflow_input>> \o definition_lists(execs', 1)
                    /\ scheduled' = gather(execs')
                    /\ UNCHANGED published
    /\ UNCHANGED <<producer, event, returns, probe, lookup, environment>>

\* The event loop runs scheduled task j up to its first suspension
Start(j) ==
    /\ j \in DOMAIN scheduled
    /\ ~scheduled[j].ran
    /\ execs[scheduled[j].exec].status = "scheduled"
    /\ Commit(scheduled[j].exec,
              start([h |-> heap, x |-> execs[scheduled[j].exec], r |-> 0],
                    SharedRef))
    /\ scheduled' = [scheduled EXCEPT ![j].ran = TRUE]
    /\ UNCHANGED <<producer, event, phase, node, calls, published, returns, probe, lookup, environment>>

\* executor.execute of execution i returns or raises
Resume(i, outcome) ==
    /\ i \in DOMAIN execs
    /\ execs[i].status = "awaiting"
    /\ Commit(i, resume(Returned(state_process_task_returns(
                            [h |-> heap, x |-> execs[i], r |-> 0], outcome))))
    /\ returns' = returns + 1
    /\ UNCHANGED <<producer, event, phase, node, calls, published, scheduled, probe, lookup, environment>>

\* the task of execution i is cancelled from outside while it is suspended
\* in its executor call
Cancel(i) ==
    /\ i \in DOMAIN execs
    /\ execs[i].status = "awaiting"
    /\ Commit(i, cancel([h |-> heap, x |-> execs[i], r |-> 0]))
    /\ UNCHANGED <<producer, event, phase, node, calls, published, scheduled,
                   returns, probe, lookup, environment>>

Next ==
    \/ \E initial_node_id \in NodeIds \cup {PyNone}, workflow_input \in Inputs :
            SendEvent(initial_node_id, workflow_input)
    \/ \E j \in DOMAIN scheduled : Start(j)
    \/ \E i \in DOMAIN execs, outcome \in ExecOutcomes : Resume(i, outcome)
    \/ \E i \in DOMAIN execs : Cancel(i)

Spec == Init /\ [][Next]_vars

\* The part of Start(j) that tells whether the step can be taken and that it
\* was taken: the task has not run, and it is marked as run.  A step of Spec
\* is a Started(j) step exactly when it is a Start(j) step, and Start(j) is
\* enabled exactly when Started(j) is.
Started(j) ==
    /\ j \in DOMAIN scheduled
    /\ ~scheduled[j].ran
    /\ execs[scheduled[j].exec].status = "scheduled"
    /\ scheduled' = [scheduled EXCEPT ![j].ran = TRUE]

\* The same for Resume: some execution is suspended in an executor call,
\* and one more executor call has come back
Returns ==
    /\ \E i \in DOMAIN execs : execs[i].status = "awaiting"
    /\ returns' = returns + 1

\* The event loop runs every task it was handed
FairSpec == Spec /\ WF_scheduled(\E j \in DOMAIN scheduled : Started(j))

\* The event loop runs every task it was handed, and every awaited
\* executor call comes back (it returns or raises)
LiveSpec ==
    /\ Spec
    /\ WF_scheduled(\E j \in DOMAIN scheduled : Started(j))
    /\ WF_returns(Returns)

(***************************************************************************)
(* The helper functions on their own: a call is drawn with its arguments,  *)
(* then made.                                                              *)
(***************************************************************************)
\* the JSON documents the functions are called on
JsonpathData ==
    {EmptyObj, JObj([a |-> JNum(4)])}
    \cup {JObj([a |-> JList(l)]) :
            l \in {<<>>, <<JNum(1)>>, <<JNum(1), JNum(2), JNum(3)>>,
                   <<JObj([x |-> JNum(1)])>>,
                   <<JObj([x |-> JNum(1)]), JObj([x |-> JNum(2)])>>,
                   <<JList(<<JNum(1), JNum(2)>>)>>}}

\* the JSONPath expressions they are called with
JsonpathExprs ==
    {<<"$">>, <<"a">>, <<"$", "a">>, <<"$", "b">>, <<"$", "a", "x">>,
     <<"$", "a", "[:]">>, <<"$", "a", "[0:1]">>, <<"$", "a", "[-2:]">>,
     <<"$", "a", "[1:]">>, <<"$", "b", "[:]">>, <<"$", "a", "[:]", "x">>}

\* the characters of template keys, and the length the keys go up to
KeyChars == {"a", ".", "$"}

MaxKeyLen == 4

\* template keys: a letter, then any characters
TemplateKeys ==
    UNION {{<<"a">> \o k : k \in [1..n -> KeyChars]} : n \in 0..(MaxKeyLen - 1)}

\* payload templates with one or two keys
Templates == {{k1, k2} : k1 \in TemplateKeys, k2 \in TemplateKeys}

\* the template key "total.$"
TotalKey == <<"t", "o", "t", "a", "l", ".", "$">>

\* the values of a ".$" field: JSONPaths, intrinsic expressions, and what is
\* neither
PayloadValues ==
    {<<"$", "price", " * ", "0.1">>,
     <<"$", "price">>,
     <<"$", "x">>,
     <<"$", "$", "Type">>,
     <<"States", ".", "Array", "(", "$", "x", ",", "2", ")">>,
     <<"States", ".", "Array", "(", "$", "price", "*", "0.1", ")">>,
     <<"States", ".", "Array", "(", "$", "price", " * ", "0.1", ")">>,
     <<"States", ".", "Array", "(", "$", "price", " * ", "2", ")">>,
     <<"States", ".", "Array", "(", "2", "+", "$", "x", ")">>,
     <<"States", ".", "Array", "(", "-", "2", ",", "(", "2", "-", "3", ")", "/", "2", ")">>,
     <<"States", ".", "Array", "(", "-", "$", "x", ")">>,
     <<"2", "+", "$", "x">>,
     <<"2", "+", "$", "price">>,
     <<"States", ".", "Array", "(", ")">>,
     <<"States", ".", "Array", "(", "#", ")">>,
     <<"States", ".", "Array", "(", "2">>,
     <<"String", ".", "Trim", "(", "' hi '", ")">>,
     <<"String", ".", "Trim", "(", "'hi'", "+", "' hi '", ")">>,
     <<"String", ".", "Trim", "(", "'hi", ")">>,
     <<"String", ".", "Trim", "(", "2", ",", "3", ")">>,
     <<"String", ".", "Trim", "(", "$", "x", ")">>,
     <<"Nope", "(", "2", ")">>,
     <<"2", ".", "x">>,
     <<"2", "(", "3", ")">>,
     <<"(", "States", ".", "Array", ")", "(", "2", ")">>,
     <<"2", " * ", "3">>,
     <<"States", ".", "Array">>,
     <<>>}

\* the inputs of the state
PayloadInputs == {JObj([price |-> JNum(100)]), JObj([x |-> JNum(1)]), EmptyObj}

\* self.current_state in these calls
PayloadContext == JObj([Type |-> JStr("Pass")])

\* the operands of the comparators
Operands == {3, 10}

\* the rules evaluate_choice_branch is called on: every numeric comparator
\* on $.n and on $$.n, the tests on $.n, a Not and an And
ChoiceBranches ==
    UNION {{[Variable |-> var, NumericGreaterThan |-> k],
            [Variable |-> var, NumericGreaterThanEquals |-> k],
            [Variable |-> var, NumericLessThan |-> k],
            [Variable |-> var, NumericLessThanEquals |-> k],
            [Variable |-> var, NumericLessThanEquals |-> k, NumericLessThan |-> k + 1],
            [Variable |-> var, NumericEquals |-> k]} :
           var \in {<<"$", "n">>, <<"$", "$", "n">>}, k \in Operands}
    \cup {[Variable |-> <<"$", "n">>, IsPresent |-> TRUE],
          [Variable |-> <<"$", "n">>, IsNull |-> TRUE],
          [Variable |-> <<"$", "n">>, IsNumeric |-> TRUE],
          [Variable |-> <<"$", "n">>],
          [Not |-> [Variable |-> <<"$", "n">>, NumericLessThan |-> 10]],
          [And |-> <<[Variable |-> <<"$", "n">>, NumericGreaterThanEquals |-> 3],
                     [Variable |-> <<"$", "n">>, NumericLessThan |-> 10]>>]}

\* the inputs of the Choice state
ChoiceInputs ==
    {JObj([n |-> JNum(i)]) : i \in {2, 3, 4, 9, 10, 11}}
    \cup {JObj([n |-> JNum(3), m |-> JNum(1)]), JObj([n |-> JNull]),
          JObj([n |-> EmptyObj]), JObj([m |-> JNum(1)]), EmptyObj}

(***************************************************************************)
(* The Scanner character by character (intrinsic_funcs/scanner.py).  The   *)
(* source is a sequence of characters; a scanner s holds the source, the   *)
(* position of its StringIO (current, the number of characters read), the  *)
(* start of the lexeme, the tokens and the exception that was raised.      *)
(***************************************************************************)
Digits == {"0", "1", "2", "3", "4", "5", "6", "7", "8", "9"}

Letters ==
    {"a", "b", "c", "d", "e", "f", "g", "h", "i", "j", "k", "l", "m", "n", "o",
     "p", "q", "r", "s", "t", "u", "v", "w", "x", "y", "z", "A", "B", "C", "D",
     "E", "F", "G", "H", "I", "J", "K", "L", "M", "N", "O", "P", "Q", "R", "S",
     "T", "U", "V", "W", "X", "Y", "Z"}

\* Scanner.is_digit; ord("") raises the TypeError that is_digit catches
is_digit(char) == char \in Digits

\* Scanner.is_alpha
is_alpha(char) == char \in Letters \cup {"_"}

\* Scanner.is_alphanumeric
is_alphanumeric(char) == is_alpha(char) \/ is_digit(char)

\* Scanner(source)
Scanner(source) ==
    [source |-> source, current |-> 0, start |-> 0, tokens |-> <<>>, err |-> ""]

\* Scanner.peek(count=count): "" at the end of the source
peek(s, count) ==
    IF s.current + count <= Len(s.source) THEN s.source[s.current + count] ELSE ""

\* Scanner.advance: the scanner after the read; the character it returns
\* is peek(s, 1)
advance(s) ==
    [s EXCEPT !.current = IF @ < Len(s.source) THEN @ + 1 ELSE @]

\* Scanner.at_end
at_end(s) == peek(s, 1) = ""

\* Scanner.substr(start, length)
substr(s, from, length) ==
    SubSeq(s.source, from + 1,
           IF from + length <= Len(s.source) THEN from + length ELSE Len(s.source))

\* the literal of a token: None, a str or a Decimal, with its text
PyLiteral(k, v) == [k |-> k, v |-> v]

\* Scanner.add_token(token_type, literal)
add_token(s, token_type, literal) ==
    [s EXCEPT !.tokens =
        Append(@, [type |-> token_type,
                   lexeme |-> substr(s, s.start, s.current - s.start),
                   literal |-> literal,
                   offset_start |-> s.start, offset_end |-> s.current])]

\* raise: the scan ends with the exception
raise(s, exception) == [s EXCEPT !.err = exception]

\* str.replace("\\'", "'")
RECURSIVE replace_escaped(_)
replace_escaped(value) ==
    IF value = <<>> THEN <<>>
    ELSE IF Len(value) >= 2 /\ value[1] = "\\" /\ value[2] = "'"
    THEN <<"'">> \o replace_escaped(SubSeq(value, 3, Len(value)))
    ELSE <<Head(value)>> \o replace_escaped(Tail(value))

\* process_string after its loop: the cursor is on the closing apostrophe
string_closed(s) ==
    add_token(advance(s), "STRING",
              PyLiteral("str", replace_escaped(
                                   substr(s, s.start + 1, (s.current - 1) - s.start))))

RECURSIVE process_string(_)
\* process_string, `a` being the scanner after the advance of the loop body
string_advanced(a) ==
    IF at_end(a) THEN raise(a, "Exception") ELSE process_string(a)

\* Scanner.process_string: while self.peek() != "'"
process_string(s) ==
    IF peek(s, 1) = "'" THEN string_closed(s)
    ELSE IF peek(advance(s), 1) = "\\" /\ peek(advance(s), 2) = "'"
    THEN string_advanced(advance(advance(advance(s))))
    ELSE string_advanced(advance(s))

RECURSIVE digits(_)
\* while self.is_digit(next_char): self.advance()
digits(s) == IF is_digit(peek(s, 1)) THEN digits(advance(s)) ELSE s

\* process_number once the digits before a "." are read
fraction(s) ==
    IF peek(s, 1) = "." /\ is_digit(peek(s, 2)) THEN digits(advance(s)) ELSE s

\* the number is read
number_read(s) ==
    add_token(s, "NUMBER",
              PyLiteral("Decimal", substr(s, s.start, s.current - s.start)))

\* Scanner.process_number
process_number(s) == number_read(fraction(digits(s)))

RECURSIVE process_identifier(_)
\* Scanner.process_identifier
process_identifier(s) ==
    IF is_alphanumeric(peek(s, 1)) THEN process_identifier(advance(s))
    ELSE add_token(s, "IDENTIFIER", PyLiteral("None", <<>>))

RECURSIVE selectors(_)
RECURSIVE name_chars(_)
\* the body of `while name-char`: advance, leave the loop at the end of the
\* source
name_char_read(a) == IF peek(a, 1) = "" THEN selectors(a) ELSE name_chars(a)

\* dot-member-name, the characters after the first
name_chars(s) ==
    IF is_alphanumeric(peek(s, 1)) THEN name_char_read(advance(s)) ELSE selectors(s)

\* dot-member-name: name_first = ord(self.advance()), then
\* name_char = ord(self.peek()); ord("") raises TypeError
member_name(s) ==
    IF peek(s, 1) = "" THEN raise(s, "TypeError")
    ELSE IF ~is_alpha(peek(s, 1)) THEN raise(advance(s), "Exception")
    ELSE IF peek(advance(s), 1) = "" THEN raise(advance(s), "TypeError")
    ELSE name_chars(advance(s))

\* case ".": s is the scanner after the dot
dot_selector(s) ==
    IF peek(s, 1) = "*" THEN selectors(advance(s))
    ELSE IF peek(s, 1) = "."
    THEN IF ~is_alpha(peek(advance(s), 1)) THEN selectors(advance(s))
         ELSE member_name(advance(s))
    ELSE member_name(s)

RECURSIVE brackets(_)
\* while self.advance() != "]": `a` is the scanner after the advance, c the
\* character it returned
bracket_read(a, c) ==
    IF c = "]" THEN selectors(a)
    ELSE IF at_end(a) THEN raise(a, "Exception")
    ELSE brackets(a)

brackets(s) == bracket_read(advance(s), peek(s, 1))

\* case "[": s is the scanner after the bracket
index_selector(s) ==
    IF peek(s, 1) = "*"
    THEN IF peek(advance(s), 1) # "]" THEN raise(advance(advance(s)), "Exception")
         ELSE selectors(advance(advance(s)))
    ELSE brackets(s)

Blank == {" ", "\t", "\n", "\r"}

\* process_jsonpath, `while True`: next_char = self.advance() and the match
\* on it.  A blank is followed by one more advance; any other character is
\* given back, the cursor moving back by one unless the source has ended
selectors(s) ==
    IF peek(s, 1) = "." THEN dot_selector(advance(s))
    ELSE IF peek(s, 1) = "[" THEN index_selector(advance(s))
    ELSE IF peek(s, 1) \in Blank THEN selectors(advance(advance(s)))
    ELSE add_token(s, "JSONPATH", PyLiteral("None", <<>>))

\* Scanner.process_jsonpath, s being the scanner after the "$"
Scanner_process_jsonpath(s) ==
    IF peek(s, 1) = "$" THEN selectors(advance(s)) ELSE selectors(s)

\* Scanner.scan_token, c being the character self.advance() returned and
\* `a` the scanner after it
token_of(a, c) ==
    IF c \in DOMAIN SingleCharacter
    THEN add_token(a, SingleCharacter[c], PyLiteral("None", <<>>))
    ELSE IF c = "'" THEN process_string(a)
    ELSE IF c = "$" THEN Scanner_process_jsonpath(a)
    ELSE IF c = " " THEN a
    ELSE IF is_digit(c) THEN process_number(a)
    ELSE IF is_alpha(c) THEN process_identifier(a)
    ELSE raise(a, "Exception")

Scanner_scan_token(s) == token_of(advance(s), peek(s, 1))

RECURSIVE Scanner_scan(_)
\* Scanner.scan: the tokens, EOF last; an exception ends the scan
Scanner_scan(s) ==
    IF s.err # "" THEN s
    ELSE IF at_end(s)
    THEN [s EXCEPT !.tokens =
             Append(@, [type |-> "EOF", lexeme |-> <<>>,
                        literal |-> PyLiteral("None", <<>>),
                        offset_start |-> s.current, offset_end |-> s.current])]
    ELSE Scanner_scan(Scanner_scan_token([s EXCEPT !.start = s.current]))

\* the characters of the sources given to the scanner
SourceChars == {"$", ".", "a", " ", "*", "[", "]", "'"}

\* the length of these sources
MaxSourceLen == 4

\* the JSONPaths of PathSources
Paths ==
    {<<"$">>, <<"$", ".", "a", "b">>, <<"$", "$", ".", "a", "b">>,
     <<"$", ".", "t", "o", "t", "a", "l", "_", "c", "o", "s", "t">>}

\* a JSONPath, blanks or none, then an operator, a comma or a parenthesis,
\* then an operand or nothing
PathSources ==
    {path \o blanks \o <<c>> \o rest :
        path \in Paths,
        blanks \in {<<>>, <<" ">>, <<" ", " ">>},
        c \in {"*", "+", "-", "/", ",", ")", "("},
        rest \in {<<>>, <<"2">>, <<" ", "2">>, <<" ", "0", ".", "1">>}}

\* sources with an escaped apostrophe, a digit, a path at their end
OtherSources ==
    {<<"'", "\\", "'">>, <<"'", "a", "\\", "'">>, <<"'", "a", "\\", "'", "'">>,
     <<"'", "\\", "'", "a", "'">>, <<"2", " ", "*", " ", "$", ".", "x">>,
     <<"f", "(", "$", ".", "a", " ", ",", " ", "$", ".", "b", ")">>,
     <<"$", "[", "0", "]", "[", "1">>, <<"$", ".", "a", "[", "'", "b", "'", "]">>,
     <<"1", "2", ".", "5", ".", "x">>, <<"$", ".", ".", "a", "b">>,
     <<"$", "[", "*", "]", ".", "*">>, <<"$", "\t", "[", "0">>, <<"#">>}

\* what the content of a string literal is made of: a character, or an
\* escaped apostrophe
Pieces == {<<"a">>, <<"\\", "'">>}

\* the number of pieces of the string literals given to the scanner
MaxPieces == 3

Contents == UNION {[1..n -> Pieces] : n \in 0..MaxPieces}

RECURSIVE Joined(_)
\* the pieces one after the other
Joined(pieces) ==
    IF pieces = <<>> THEN <<>> ELSE Head(pieces) \o Joined(Tail(pieces))

\* the string literal of a content: the content between apostrophes
Quoted(content) == <<"'">> \o Joined(content) \o <<"'">>

StringSources == {Quoted(content) : content \in Contents}

Sources ==
    UNION {[1..n -> SourceChars] : n \in 0..MaxSourceLen}
    \cup PathSources \cup OtherSources \cup StringSources

\* the `data` of the calls of set_jsonpath_value
SetData ==
    {EmptyObj, JObj([x |-> JNum(1)]), JObj([a |-> JObj([b |-> JNum(1)])]),
     JObj([a |-> EmptyObj])}

\* their jsonpath_expr
SetExprs == {<<"$">>, <<"$", "a">>, <<"$", "a", "b">>, <<"$", "x", "c">>}

\* their new_data
SetNewData == JObj([y |-> JNum(2)])

\* the operators of a Binary
BinaryOperators ==
    {Token("PLUS", <<"+">>, JNull), Token("MINUS", <<"-">>, JNull),
     Token("STAR", <<"*">>, JNull), Token("SLASH", <<"/">>, JNull)}

\* its operands: the literals 2 and 'hi', the variables $.n and $.s
BinaryOperands ==
    {Literal(JDec(20)), Literal(JStr("hi")),
     Variable(Token("JSONPATH", <<"$", "n">>, JNull)),
     Variable(Token("JSONPATH", <<"$", "s">>, JNull))}

\* the input of the function: n a number, s a string
BinaryInputs == {JObj([n |-> JNum(3), s |-> JStr("ab")])}

\* the numbers of arguments of the calls given to the parser
ArgumentCounts == {0, 1, 2, MaxArguments - 1, MaxArguments, MaxArguments + 1,
                   MaxArguments + 2}

\* what the last argument of such a call is: a string, or 'hi'.x, which the
\* parser cannot read (a Literal has no name to extend)
LastArguments ==
    {<<Token("STRING", <<"'hi'">>, JStr("hi"))>>,
     <<Token("STRING", <<"'hi'">>, JStr("hi")), Token("DOT", <<".">>, JNull),
       Token("IDENTIFIER", <<"x">>, JNull)>>}

\* n strings, each followed by a comma
Strings(n) ==
    [i \in 1..(2 * n) |->
        IF i % 2 = 1 THEN Token("STRING", <<"'hi'">>, JStr("hi"))
        ELSE Token("COMMA", <<",">>, JNull)]

\* the tokens of a call of n arguments: x(, n - 1 strings, `last`, ) and EOF
CallTokens(n, last) ==
    <<Token("IDENTIFIER", <<"x">>, JNull), Token("LEFT_PAREN", <<"(">>, JNull)>>
    \o (IF n = 0 THEN <<>> ELSE Strings(n - 1) \o last)
    \o <<Token("RIGHT_PAREN", <<")">>, JNull), EofToken>>

\* token lists with a DOT after a name: States.Format('hi'),
\* States.Array.x, States.Format( and x(States.Trim('hi'))
DottedTokens ==
    {<<Token("IDENTIFIER", <<"States">>, JNull), Token("DOT", <<".">>, JNull),
       Token("IDENTIFIER", <<"Format">>, JNull),
       Token("LEFT_PAREN", <<"(">>, JNull),
       Token("STRING", <<"'hi'">>, JStr("hi")),
       Token("RIGHT_PAREN", <<")">>, JNull), EofToken>>,
     <<Token("IDENTIFIER", <<"States">>, JNull), Token("DOT", <<".">>, JNull),
       Token("IDENTIFIER", <<"Array">>, JNull), Token("DOT", <<".">>, JNull),
       Token("IDENTIFIER", <<"x">>, JNull), EofToken>>,
     <<Token("IDENTIFIER", <<"States">>, JNull), Token("DOT", <<".">>, JNull),
       Token("IDENTIFIER", <<"Format">>, JNull),
       Token("LEFT_PAREN", <<"(">>, JNull), EofToken>>,
     <<Token("IDENTIFIER", <<"x">>, JNull), Token("LEFT_PAREN", <<"(">>, JNull),
       Token("IDENTIFIER", <<"States">>, JNull), Token("DOT", <<".">>, JNull),
       Token("IDENTIFIER", <<"Trim">>, JNull),
       Token("LEFT_PAREN", <<"(">>, JNull),
       Token("STRING", <<"'hi'">>, JStr("hi")),
       Token("RIGHT_PAREN", <<")">>, JNull),
       Token("RIGHT_PAREN", <<")">>, JNull), EofToken>>}

FuncInit ==
    /\ producer = FALSE
    /\ event = [identifier |-> ""]
    /\ phase = "idle"
    /\ node = "<unset>"
    /\ calls = <<>>
    /\ published = <<>>
    /\ scheduled = <<>>
    /\ execs = <<>>
    /\ heap = <<>>
    /\ returns = 0
    /\ probe \in
           {[NoCall EXCEPT !.fn = "get_jsonpath_value", !.data = d, !.expr = e] :
                d \in JsonpathData, e \in JsonpathExprs}
           \cup {[NoCall EXCEPT !.fn = "evaluate_payload_template", !.params = t,
                                 !.data = JObj([x |-> JNum(1)]), !.expr = <<"$", "x">>] :
                    t \in Templates}
           \cup {[NoCall EXCEPT !.fn = "evaluate_payload_template",
                                 !.params = {TotalKey}, !.data = d, !.expr = e] :
                    d \in PayloadInputs, e \in PayloadValues}
           \cup {[NoCall EXCEPT !.fn = "evaluate_choice_branch", !.branch = b,
                                 !.data = d] :
                    b \in ChoiceBranches, d \in ChoiceInputs}
           \cup {[NoCall EXCEPT !.fn = "call", !.tokens = CallTokens(n, last)] :
                    n \in ArgumentCounts, last \in LastArguments}
           \cup {[NoCall EXCEPT !.fn = "call", !.tokens = tokens] :
                    tokens \in DottedTokens}
           \cup {[NoCall EXCEPT !.fn = "scan", !.expr = source] : source \in Sources}
           \cup {[NoCall EXCEPT !.fn = "set_jsonpath_value", !.data = d,
                                 !.expr = e] :
                    d \in SetData, e \in SetExprs}
           \cup {[NoCall EXCEPT !.fn = "visit_binary_expr", !.data = d,
                                 !.expr = Binary(left, operator, right)] :
                    d \in BinaryInputs, left \in BinaryOperands,
                    right \in BinaryOperands, operator \in BinaryOperators}
    /\ lookup = NoLookup
    /\ environment = NoEnvironment

\* get_jsonpath_value(data, jsonpath_expr) is called
GetJsonpathValue ==
    /\ probe.fn = "get_jsonpath_value"
    /\ ~probe.called
    /\ probe' = [probe EXCEPT !.called = TRUE,
                              !.out = get_jsonpath_value(probe.data, probe.expr)]
    /\ UNCHANGED <<producer, event, phase, node, calls, published, scheduled,
                   execs, heap, returns, lookup, environment>>

\* what evaluate_payload_template leaves for a template whose fields all hold
\* `value`: the exception of the first field, or else the keys of the dict
\* it returns and the value they all have
payload(asked, found) ==
    [asked EXCEPT !.called = TRUE, !.out = found,
                  !.keys = IF found.err # "" THEN {} ELSE output_keys(asked.params)]

\* evaluate_payload_template(payload_template, state_input) is called, the
\* fields of the template being probe.params and all of them holding the
\* value probe.expr
EvaluatePayloadTemplate ==
    /\ probe.fn = "evaluate_payload_template"
    /\ ~probe.called
    /\ probe' = payload(probe,
                        IF \E param \in probe.params : endswith_dot_dollar(param)
                        THEN payload_value(probe.expr, probe.data, PayloadContext)
                        ELSE Evaluated(Value(JNull), "evaluate_payload_template"))
    /\ UNCHANGED <<producer, event, phase, node, calls, published, scheduled,
                   execs, heap, returns, lookup, environment>>

\* evaluate_choice_branch(branch=branch, state_input=state_input) is called
EvaluateChoiceBranch ==
    /\ probe.fn = "evaluate_choice_branch"
    /\ ~probe.called
    /\ probe' = [probe EXCEPT !.called = TRUE,
                              !.out = evaluate_choice_branch(probe.branch, probe.data)]
    /\ UNCHANGED <<producer, event, phase, node, calls, published, scheduled,
                   execs, heap, returns, lookup, environment>>

\* Parser(tokens).call() is called
ParserCall ==
    /\ probe.fn = "call"
    /\ ~probe.called
    /\ probe' = [probe EXCEPT !.called = TRUE, !.out = call(probe.tokens, 1),
                               !.self = probe.tokens,
                               !.tokens = call(probe.tokens, 1).tokens]
    /\ UNCHANGED <<producer, event, phase, node, calls, published, scheduled,
                   execs, heap, returns, lookup, environment>>

\* Parser(tokens).call() is called by a second Parser, on the list the first
\* one was given
ParserCallAgain ==
    /\ probe.fn = "call"
    /\ probe.called
    /\ probe.again.err = "<unset>"
    /\ probe' = [probe EXCEPT !.again = call(probe.tokens, 1),
                               !.tokens = call(probe.tokens, 1).tokens]
    /\ UNCHANGED <<producer, event, phase, node, calls, published, scheduled,
                   execs, heap, returns, lookup, environment>>

\* Scanner(source).scan() is called
ScannerScan ==
    /\ probe.fn = "scan"
    /\ ~probe.called
    /\ probe' = [probe EXCEPT !.called = TRUE,
                              !.out = Scanner_scan(Scanner(probe.expr))]
    /\ UNCHANGED <<producer, event, phase, node, calls, published, scheduled,
                   execs, heap, returns, lookup, environment>>

\* Interpreter(func_input_json=data).visit_binary_expr(expr) is called
VisitBinaryExpr ==
    /\ probe.fn = "visit_binary_expr"
    /\ ~probe.called
    /\ probe' = [probe EXCEPT !.called = TRUE,
                              !.out = evaluate(probe.expr, probe.data)]
    /\ UNCHANGED <<producer, event, phase, node, calls, published, scheduled,
                   execs, heap, returns, lookup, environment>>

\* set_jsonpath_value(data, new_data, jsonpath_expr) is called, use_copy
\* being True by default; out.data is what the caller's data holds after it
SetJsonpathValue ==
    /\ probe.fn = "set_jsonpath_value"
    /\ ~probe.called
    /\ probe' = [probe EXCEPT !.called = TRUE,
                              !.out = set_jsonpath_value(probe.data, SetNewData,
                                                         probe.expr, TRUE)]
    /\ UNCHANGED <<producer, event, phase, node, calls, published, scheduled,
                   execs, heap, returns, lookup, environment>>

FuncNext ==
    \/ SetJsonpathValue
    \/ VisitBinaryExpr
    \/ ScannerScan
    \/ ParserCall
    \/ ParserCallAgain
    \/ GetJsonpathValue
    \/ EvaluatePayloadTemplate
    \/ EvaluateChoiceBranch

FuncSpec == FuncInit /\ [][FuncNext]_vars

(***************************************************************************)
(* FileSystemLookup (lookup/filesystem.py).  A string that is split at     *)
(* "." or given a prefix is a sequence of pieces, <<"n1", ".", "trigger">>  *)
(* being "n1.trigger".  lookup.heap holds the dicts the lookup has built:  *)
(* the dict of a definition refers to its States dict, which refers to the *)
(* dict of every state.                                                    *)
(***************************************************************************)
Dot == "."

\* f"python -m {old_resource}"
python_m(old_resource) == <<"python -m ">> \o old_resource

\* str.split(".")[0]
RECURSIVE first_segment(_)
first_segment(resource) ==
    IF resource = <<>> \/ Head(resource) = Dot
    THEN <<>>
    ELSE <<Head(resource)>> \o first_segment(Tail(resource))

\* the iteration order of a dict's keys
RECURSIVE Ordered(_)
Ordered(S) ==
    IF S = {} THEN <<>>
    ELSE LET x == CHOOSE x \in S : TRUE IN <<x>> \o Ordered(S \ {x})

Position(seq, x) == CHOOSE k \in DOMAIN seq : seq[k] = x

\* the .asl files a working directory can hold
Files ==
    [both |-> [StartAt |-> "A",
               States |-> [A |-> [Type |-> "Task", Resource |-> <<"n1", ".", "trigger">>],
                           B |-> [Type |-> "Task", Resource |-> <<"n2", ".", "step">>]]],
     one |-> [StartAt |-> "A",
              States |-> [A |-> [Type |-> "Task", Resource |-> <<"n1", ".", "trigger">>],
                          B |-> [Type |-> "Pass"]]],
     plain |-> [StartAt |-> "A",
                States |-> [A |-> [Type |-> "Task", Resource |-> <<"n2">>]]],
     passfirst |-> [StartAt |-> "A",
                    States |-> [A |-> [Type |-> "Pass"],
                                B |-> [Type |-> "Task", Resource |-> <<"n1", ".", "step">>]]],
     nostart |-> [StartAt |-> "Z",
                  States |-> [A |-> [Type |-> "Task", Resource |-> <<"n1", ".", "trigger">>]]]]

\* the working directories, as the file paths in the order os.walk gives them
Disks ==
    {<<"both">>, <<"both", "one">>, <<"passfirst", "plain">>,
     <<"one", "nostart", "plain", "both">>}

\* credentials.json
credentials == [n1 |-> <<"xoxb-2930">>]

\* self.credentials.get(node_id, {}); a credentials map is the sequence of
\* its secrets
credentials_get(node_id) ==
    IF Len(node_id) = 1 /\ node_id[1] \in DOMAIN credentials
    THEN credentials[node_id[1]]
    ELSE <<>>

\* md5(file_path.encode("utf-8")).hexdigest()
md5(file_path) == [md5 |-> file_path]

\* json.load: the dicts of document j are built on heap h, the dict of every
\* state, then the States dict, then the document's; r refers to the last
json_load(h, j) ==
    LET names == Ordered(DOMAIN j.States)
    IN  [h |-> h \o [k \in DOMAIN names |-> j.States[names[k]]]
                 \o <<[n \in DOMAIN j.States |-> Len(h) + Position(names, n)],
                      [StartAt |-> j.StartAt, States |-> Len(h) + Len(names) + 1]>>,
         r |-> Len(h) + Len(names) + 2]

\* the JSON document the dicts under r hold
document(h, r) ==
    [StartAt |-> h[r].StartAt,
     States |-> [n \in DOMAIN h[h[r].States] |-> h[h[h[r].States][n]]]]

\* FileSystemLookup.__init__ loading the files that remain of a directory:
\* a file whose first state has no Resource is skipped
RECURSIVE load(_, _)
load(lk, files) ==
    IF files = <<>> THEN lk
    ELSE LET j == json_load(lk.heap, Files[Head(files)])
             doc == Files[Head(files)]
             KeyError == \/ doc.StartAt \notin DOMAIN doc.States
                         \/ "Resource" \notin DOMAIN doc.States[doc.StartAt]
         IN  load([lk EXCEPT
                      !.heap = j.h,
                      !.workflows =
                          IF KeyError THEN @
                          ELSE Append(@, [key |-> doc.States[doc.StartAt].Resource,
                                          identifier |-> md5(Head(files)),
                                          definition |-> j.r])],
                  Tail(files))

\* FileSystemLookup() in working directory disk.  self.workflows, a dict of
\* lists, is the sequence of its entries with their keys, in loading order
FileSystemLookup(disk) ==
    load([heap |-> <<>>, workflows |-> <<>>, returned |-> <<>>], disk)

\* self.workflows.get(initial_node_id, None)
workflows_get(lk, initial_node_id) ==
    SelectSeq(lk.workflows, LAMBDA w : w.key = initial_node_id)

\* a deep copy of a list of _FileSystemWorkflow objects: new objects, whose
\* definitions are new dicts holding the same documents
RECURSIVE copied(_, _)
copied(h, workflows) ==
    IF workflows = <<>> THEN [h |-> h, r |-> <<>>]
    ELSE LET first == json_load(h, document(h, Head(workflows).definition))
             rest == copied(first.h, Tail(workflows))
         IN  [h |-> rest.h,
              r |-> <<[Head(workflows) EXCEPT !.definition = first.r]>> \o rest.r]

\* the same list of the same objects
same_objects(h, workflows) == [h |-> h, r |-> workflows]

\* copy.deepcopy(workflows)
deepcopy(h, workflows) == copied(h, workflows)

\* get_state_context(workflow_definition)
get_state_context(h, definition) ==
    LET states == h[h[definition].States]
    IN  [state_name \in {n \in DOMAIN states : "Resource" \in DOMAIN h[states[n]]} |->
            credentials_get(first_segment(h[states[state_name]].Resource))]

\* the loop of get_workflow_execution over the state names that remain
RECURSIVE rewrite_resources(_, _, _)
rewrite_resources(h, wf, names) ==
    IF names = <<>> THEN h
    ELSE LET state == h[h[wf].States][Head(names)]
         IN  rewrite_resources(
                 IF "Resource" \in DOMAIN h[state]
                 THEN [h EXCEPT ![state].Resource = python_m(@)]
                 ELSE h,
                 wf, Tail(names))

\* get_workflow_execution(workflow_definition=workflow): the state context, a shallow
\* copy of the definition, the rewriting of every Resource
get_workflow_execution(h, workflow) ==
    LET state_context == get_state_context(h, workflow.definition)
        copy == Append(h, h[workflow.definition])
        wf == Len(copy)
    IN  [h |-> rewrite_resources(
                   copy, wf,
                   Ordered(DOMAIN h[h[workflow.definition].States])),
         r |-> [workflow_id |-> workflow.identifier,
                workflow_definition |-> wf,
                state_context |-> state_context]]

\* the loop of get_workflows over the copied workflows that remain
RECURSIVE workflow_executions(_, _)
workflow_executions(h, workflows) ==
    IF workflows = <<>> THEN [h |-> h, r |-> <<>>]
    ELSE LET first == get_workflow_execution(h, Head(workflows))
             rest == workflow_executions(first.h, Tail(workflows))
         IN  [h |-> rest.h, r |-> <<first.r>> \o rest.r]

\* get_workflows(initial_node_id, event)
get_workflows(lk, initial_node_id) ==
    LET workflows == workflows_get(lk, initial_node_id)
        copies == deepcopy(lk.heap, workflows)
    IN  IF workflows = <<>>
        THEN [h |-> lk.heap, r |-> <<>>]
        ELSE workflow_executions(copies.h, copies.r)

\* the calls of get_workflows one run makes
MaxCalls == 3

\* the node ids get_workflows is called with
LookupNodeIds ==
    {<<"n1", ".", "trigger">>, <<"n2">>, <<"n2", ".", "step">>,
     <<"python -m ", "n1", ".", "trigger">>}

LookupInit ==
    /\ producer = FALSE
    /\ event = [identifier |-> ""]
    /\ phase = "idle"
    /\ node = "<unset>"
    /\ calls = <<>>
    /\ published = <<>>
    /\ scheduled = <<>>
    /\ execs = <<>>
    /\ heap = <<>>
    /\ returns = 0
    /\ probe = NoCall
    /\ lookup \in {FileSystemLookup(disk) : disk \in Disks}
    /\ environment = NoEnvironment

\* await lookup.get_workflows(initial_node_id, event); the caller keeps the
\* tuple it was given
GetWorkflows(initial_node_id) ==
    /\ Len(lookup.returned) < MaxCalls
    /\ LET got == get_workflows(lookup, initial_node_id)
       IN  lookup' = [lookup EXCEPT
                         !.heap = got.h,
                         !.returned = Append(@, [initial_node_id |-> initial_node_id,
                                                 executions |-> got.r])]
    /\ UNCHANGED <<producer, event, phase, node, calls, published, scheduled,
                   execs, heap, returns, probe, environment>>

LookupNext == \E initial_node_id \in LookupNodeIds : GetWorkflows(initial_node_id)

LookupSpec == LookupInit /\ [][LookupNext]_vars

(***************************************************************************)
(* get_jsonpath_value step by step (utils/jsonpath.py): the parse tree of  *)
(* jsonpath_ng, and one action for each turn of the `while True` loop that *)
(* walks it.                                                               *)
(***************************************************************************)
Root == [node |-> "Root"]

Fields(field) == [node |-> "Fields", field |-> field]

Slice(lexeme) == [node |-> "Slice", lexeme |-> lexeme]

Child(left, right) == [node |-> "Child", left |-> left, right |-> right]

Descendants(left, right) == [node |-> "Descendants", left |-> left, right |-> right]

RECURSIVE parse_from(_, _)
\* the tree of the selectors `rest` applied to `tree`
parse_from(tree, rest) ==
    IF rest = <<>> THEN tree
    ELSE IF Head(rest) = ".."
    THEN parse_from(Descendants(tree, Fields(rest[2])), Tail(Tail(rest)))
    ELSE IF IsSlice(Head(rest))
    THEN parse_from(Child(tree, Slice(Head(rest))), Tail(rest))
    ELSE parse_from(Child(tree, Fields(Head(rest))), Tail(rest))

\* jsonpath_ng parse(jsonpath_expr)
jsonpath_parse(expr) ==
    IF StartsWithDollar(expr) THEN parse_from(Root, Tail(expr))
    ELSE parse_from(Fields(Head(expr)), Tail(expr))

\* get_jsonpath_value returns or raises
walked(asked, result) == [asked EXCEPT !.called = TRUE, !.out = result]

\* get_jsonpath_value up to its loop: the results that need no walk are
\* returned, or else c = parser
found(asked, parser, result) ==
    IF Len(result) > 1 THEN walked(asked, Value(JList(result)))
    ELSE IF Len(result) = 0 THEN walked(asked, Value(JList(<<>>)))
    ELSE IF result[1].k \in {"obj", "list"} THEN walked(asked, Value(result[1]))
    ELSE [asked EXCEPT !.c = parser]

\* one turn of `while True`, result being the one match
walk_turn(asked, parser, result) ==
    \* parser.right: only Child and Descendants have one
    IF parser.node \notin {"Child", "Descendants"}
    THEN walked(asked, Raised("AttributeError"))
    ELSE IF parser.right.node = "Slice"
    THEN walked(asked, Value(JList(<<result[1]>>)))
    ELSE IF asked.c.node = "Child" THEN [asked EXCEPT !.c = asked.c.left]
    ELSE IF asked.c.node = "Root" THEN walked(asked, Value(result[1]))
    \* no branch applies: the next turn finds c as it is
    ELSE asked

\* the documents and expressions of the calls
WalkData == JsonpathData \cup {JObj([a |-> JObj([x |-> JNum(1)])])}

WalkExprs ==
    JsonpathExprs \cup {<<"$", "..", "x">>, <<"a", "x">>, <<"$", "a", "..", "x">>}

WalkInit ==
    /\ producer = FALSE
    /\ event = [identifier |-> ""]
    /\ phase = "idle"
    /\ node = "<unset>"
    /\ calls = <<>>
    /\ published = <<>>
    /\ scheduled = <<>>
    /\ execs = <<>>
    /\ heap = <<>>
    /\ returns = 0
    /\ probe \in {[NoCall EXCEPT !.fn = "get_jsonpath_value", !.data = d, !.expr = e] :
                      d \in WalkData, e \in WalkExprs}
    /\ lookup = NoLookup
    /\ environment = NoEnvironment

\* get_jsonpath_value(data, jsonpath_expr) is called and runs up to its loop
WalkFind ==
    /\ probe.fn = "get_jsonpath_value"
    /\ ~probe.called
    /\ probe.c.node = "<unset>"
    /\ probe' = found(probe, jsonpath_parse(probe.expr),
                      Find(probe.data, PathFields(probe.expr)))
    /\ UNCHANGED <<producer, event, phase, node, calls, published, scheduled,
                   execs, heap, returns, lookup, environment>>

\* a turn of the loop
WalkTurn ==
    /\ probe.fn = "get_jsonpath_value"
    /\ ~probe.called
    /\ probe.c.node # "<unset>"
    /\ probe' = walk_turn(probe, jsonpath_parse(probe.expr),
                          Find(probe.data, PathFields(probe.expr)))
    /\ UNCHANGED <<producer, event, phase, node, calls, published, scheduled,
                   execs, heap, returns, lookup, environment>>

WalkNext == WalkFind \/ WalkTurn

WalkSafe == WalkInit /\ [][WalkNext]_vars

\* the interpreter goes on running the function it is in
WalkSpec == WalkSafe /\ WF_vars(WalkNext)

(***************************************************************************)
(* start() called again.  The driver calls start() once on each execution; *)
(* here one execution is made as initialize_workflows makes it, its        *)
(* coroutine is run by the event loop, and a caller awaits start() on the  *)
(* same object another time.                                               *)
(***************************************************************************)
\* the workflows of these executions
RestartWorkflows ==
    {"task", "pass", "choice", "order", "unknownstart", "nostartat", "unknownnext"}

RestartInit ==
    /\ producer = FALSE
    /\ event = [identifier |-> "evt-1"]
    /\ phase = "returned"
    /\ node \in RestartWorkflows
    /\ calls = <<"process_func", "get_workflows">>
    /\ published = <<>>
    /\ execs = <<NewExecution(node, event.identifier)>>
    /\ scheduled = gather(execs)
    /\ heap \in {<<workflow_input>> : workflow_input \in Inputs}
    /\ returns = 0
    /\ probe = NoCall
    /\ lookup = NoLookup
    /\ environment = NoEnvironment

\* what the object holds after the second call: the fields the call set;
\* the outcome of the first coroutine stays its own
started_again(x, again) ==
    [again EXCEPT !.status = x.status, !.err = x.err, !.msg = x.msg]

\* await execs[i].start(workflow_input) another time, the first coroutine
\* being suspended or over; probe keeps the object before the call, the
\* exception of the call and the object after it
StartAgain(i) ==
    /\ i \in DOMAIN execs
    /\ execs[i].status # "scheduled"
    /\ ~probe.called
    /\ LET m == start([h |-> heap,
                       x |-> [execs[i] EXCEPT !.status = "scheduled",
                                              !.err = "", !.msg = ""],
                       r |-> 0], SharedRef)
       IN  /\ execs' = [execs EXCEPT ![i] = started_again(execs[i], m.x)]
           /\ heap' = m.h
           /\ probe' = [probe EXCEPT !.fn = "start", !.called = TRUE,
                                     !.self = execs[i],
                                     !.out = [err |-> m.x.err, v |-> JNull,
                                              x |-> m.x]]
    /\ UNCHANGED <<producer, event, phase, node, calls, published, scheduled,
                   returns, lookup, environment>>

RestartNext ==
    \/ \E j \in DOMAIN scheduled : Start(j)
    \/ \E i \in DOMAIN execs, outcome \in ExecOutcomes : Resume(i, outcome)
    \/ \E i \in DOMAIN execs : Cancel(i)
    \/ \E i \in DOMAIN execs : StartAgain(i)

RestartSpec == RestartInit /\ [][RestartNext]_vars

(***************************************************************************)
(* One execution and the input it was made with.  A dict within            *)
(* workflow_input is an object of its own: a cell of the heap after        *)
(* workflow_input, which holds a reference to it.                          *)
(***************************************************************************)
\* the heaps process_func can leave: workflow_input, then the dicts in it
InputHeaps ==
    {<<workflow_input>> : workflow_input \in Inputs}
    \cup {<<JObj([a |-> JRef(2)]), JObj([c |-> JNum(1)])>>,
          <<JObj([a |-> JRef(2), x |-> JNum(1)]), EmptyObj>>}

InputWorkflows == {"task", "nested", "shape", "rootpath", "passresult", "choice"}

\* the task context the executor hands to the task of a state
get_task_context(h, x, state_name) ==
    [Execution |-> [Id |-> x.execution_id, Input |-> Resolve(h, x.original_input)],
     Workflow |-> [Id |-> x.workflow_id],
     State |-> [Name |-> state_name, RetryCount |-> 0]]

InputInit ==
    /\ producer = FALSE
    /\ event = [identifier |-> "evt-1"]
    /\ phase = "returned"
    /\ node \in InputWorkflows
    /\ calls = <<"process_func", "get_workflows">>
    /\ published = <<>>
    /\ heap \in InputHeaps
    /\ execs = <<[NewExecution(node, event.identifier) EXCEPT
                     !.original_input = heap[SharedRef],
                     !.created = Resolve(heap, heap[SharedRef])]>>
    /\ scheduled = gather(execs)
    /\ returns = 0
    /\ probe = NoCall
    /\ lookup = NoLookup
    /\ environment = NoEnvironment

InputNext ==
    \/ \E j \in DOMAIN scheduled : Start(j)
    \/ \E i \in DOMAIN execs, outcome \in ExecOutcomes : Resume(i, outcome)
    \/ \E i \in DOMAIN execs : Cancel(i)

InputSpec == InputInit /\ [][InputNext]_vars

(***************************************************************************)
(* One execution run to its end, the executor returning from every call:   *)
(* definitions whose transitions form no cycle, and definitions whose      *)
(* states name each other in a circle.                                     *)
(***************************************************************************)
CycleWorkflows ==
    {"task", "pass", "choice", "order", "shape", "unknownnext",
     "cyclepass", "cycletask", "cyclechoice"}

CycleInit ==
    /\ producer = FALSE
    /\ event = [identifier |-> "evt-1"]
    /\ phase = "returned"
    /\ node \in CycleWorkflows
    /\ calls = <<"process_func", "get_workflows">>
    /\ published = <<>>
    /\ execs = <<NewExecution(node, event.identifier)>>
    /\ scheduled = gather(execs)
    /\ heap \in {<<workflow_input>> : workflow_input \in Inputs}
    /\ returns = 0
    /\ probe = NoCall
    /\ lookup = NoLookup
    /\ environment = NoEnvironment

CycleNext ==
    \/ \E j \in DOMAIN scheduled : Start(j)
    \/ \E i \in DOMAIN execs, outcome \in ExecOutcomes : Resume(i, outcome)

\* the event loop runs the task, and every awaited executor call comes back
CycleSpec ==
    /\ CycleInit
    /\ [][CycleNext]_vars
    /\ WF_scheduled(\E j \in DOMAIN scheduled : Started(j))
    /\ WF_returns(Returns)

(***************************************************************************)
(* The registry of the built-in functions (intrinsic_funcs/environment.py, *)
(* funcs.py).  system_defaults is a dict of the class Environment: a       *)
(* function from names to callables.  A name is a sequence of characters,  *)
(* a callable is the number of the `f()` object register made.             *)
(***************************************************************************)
\* name.startswith("$")
startswith_dollar(name) == name # <<>> /\ Head(name) = "$"

\* cls.system_defaults[name] = value
defined(defaults, name, value) ==
    [key \in DOMAIN defaults \cup {name} |->
        IF key = name THEN value ELSE defaults[key]]

\* define_system_default without its first test (a second registration
\* of a name rebinds it)
define_system_default_again(defaults, name, value) ==
    IF startswith_dollar(name)
    THEN [raised |-> "ValueError", system_defaults |-> defaults]
    ELSE [raised |-> "", system_defaults |-> defined(defaults, name, value)]

\* Environment.define_system_default(name, value): the exception it raises
\* ("" for none) and system_defaults after it
define_system_default(defaults, name, value) ==
    IF name \in DOMAIN defaults
    THEN [raised |-> "KeyError", system_defaults |-> defaults]
    ELSE IF startswith_dollar(name)
    THEN [raised |-> "ValueError", system_defaults |-> defaults]
    ELSE [raised |-> "", system_defaults |-> defined(defaults, name, value)]

\* the number of registrations
MaxRegistrations == 4

\* the names register is called with
RegisterNames ==
    {<<"f">>, <<"g">>, <<"f", "$">>, <<"$">>, <<"$", "f">>, <<>>}

RegistryInit ==
    /\ producer = FALSE
    /\ event = [identifier |-> ""]
    /\ phase = "idle"
    /\ node = "<unset>"
    /\ calls = <<>>
    /\ published = <<>>
    /\ scheduled = <<>>
    /\ execs = <<>>
    /\ heap = <<>>
    /\ returns = 0
    /\ probe = NoCall
    /\ lookup = NoLookup
    /\ environment = NoEnvironment

\* @register(name=name, arity=...) decorates a function: the decorator
\* makes a new f() and calls Environment.define_system_default(name, f())
Register(name) ==
    /\ Len(environment.defined) < MaxRegistrations
    /\ LET value == Len(environment.defined) + 1
           done == define_system_default(environment.system_defaults, name, value)
       IN  environment' =
               [system_defaults |-> done.system_defaults,
                defined |-> Append(environment.defined,
                                   [name |-> name, value |-> value,
                                    raised |-> done.raised,
                                    before |-> environment.system_defaults])]
    /\ UNCHANGED <<producer, event, phase, node, calls, published, scheduled,
                   execs, heap, returns, probe, lookup>>

RegistryNext == \E name \in RegisterNames : Register(name)

RegistrySpec == RegistryInit /\ [][RegistryNext]_vars

(***************************************************************************)
(* Properties.  The history of an execution is its trace: "enter" when     *)
(* execute_state is entered (val: the state input), "call" when the        *)
(* executor is awaited (val: the effective input), "ret" when it has come  *)
(* back (val: the raw output), "shaped" when the effective output of a     *)
(* Task or Pass is known (val), "choice" when a Choice state has set its   *)
(* target.                                                                 *)
(***************************************************************************)
Trace(e) == execs[e].trace

StateOf(e, name) == Defs[execs[e].workflow_id].States[name]

IsEnter(e, i) == i \in DOMAIN Trace(e) /\ Trace(e)[i].ev = "enter"

Terminated(e) == execs[e].status \in {"done", "failed", "cancelled"}

\* no state is entered after position i of the trace
NoEnterAfter(e, i) == \A j \in DOMAIN Trace(e) : j > i => Trace(e)[j].ev # "enter"

\* the events before position i are the complete processing of the state
\* named at i - 1
StepComplete(e, i) ==
    LET t == Trace(e)
        name == t[i - 1].st
        type == StateOf(e, name).Type
        Is(j, ev) == j >= 1 /\ t[j].ev = ev /\ t[j].st = name
    IN  CASE type = "Task" ->
                Is(i - 4, "enter") /\ Is(i - 3, "call") /\ Is(i - 2, "ret")
                    /\ Is(i - 1, "shaped")
          [] type = "Pass" -> Is(i - 2, "enter") /\ Is(i - 1, "shaped")
          [] type = "Choice" -> Is(i - 2, "enter") /\ Is(i - 1, "choice")
          [] OTHER -> FALSE

\* C1: within one execution a state is entered only when the state before
\* it has been processed completely (for a Task: the executor was called,
\* came back and the output was shaped), its input is exactly the effective
\* output of that state, and while the executor call is pending the
\* execution has entered nothing beyond the Task it is suspended in.
C1_StatesRunInSequence ==
    \A e \in DOMAIN execs :
        /\ \A i \in DOMAIN Trace(e) :
               (IsEnter(e, i) /\ i > 1) =>
                   /\ StepComplete(e, i)
                   /\ Trace(e)[i].val = Trace(e)[i - 1].val
        /\ execs[e].status = "awaiting" =>
               /\ Trace(e)[Len(Trace(e))].ev = "call"
               /\ Trace(e)[Len(Trace(e))].st = execs[e].current_state_name

\* a Task with a ResultPath has been shaped and the next state entered
C1_Witness ==
    \E e \in DOMAIN execs :
        /\ execs[e].workflow_id = "task"
        /\ Len(Trace(e)) >= 5
        /\ Trace(e)[4].ev = "shaped"
        /\ Trace(e)[5].ev = "enter"
        /\ Trace(e)[5].st = "B"

\* C2: current_state_name is null until start() assigns it; from the first
\* assignment on it names a state of States (also after the execution has
\* ended) and there is one assignment per state entered, the name being
\* that of the state entered last.
C2_CurrentStateName ==
    \A e \in DOMAIN execs :
        LET x == execs[e]
            enters == {i \in DOMAIN x.trace : x.trace[i].ev = "enter"}
        IN  /\ x.status = "scheduled" => x.current_state_name = PyNone
            /\ x.assigns = 0 <=> x.current_state_name = PyNone
            /\ x.assigns > 0 =>
                   /\ x.current_state_name \in DOMAIN Defs[x.workflow_id].States
                   /\ x.assigns = Cardinality(enters)
                   /\ \E i \in enters :
                          /\ x.trace[i].st = x.current_state_name
                          /\ \A j \in enters : j <= i

\* an execution that went through a Choice and ended, the name still set
C2_Witness ==
    \E e \in DOMAIN execs :
        /\ execs[e].status = "done"
        /\ execs[e].assigns = 2
        /\ execs[e].current_state_name = "Big"

\* the value of the state input when the state entered last was entered
EntryInput(e) ==
    LET t == Trace(e)
        last == CHOOSE i \in DOMAIN t :
                    t[i].ev = "enter" /\ \A j \in DOMAIN t : t[j].ev = "enter" => j <= i
    IN  t[last].val

\* C3: executions of one event share no mutable state: while an execution
\* is suspended in the executor call of a Task, the state input it holds is
\* the one it entered the Task with, whatever its siblings do.
C3_NoSharedInput ==
    \A e \in DOMAIN execs :
        execs[e].status = "awaiting" => heap[execs[e].inp] = EntryInput(e)

\* C4: when an execution fails, that step changes no sibling (it cancels
\* none and skips none), the failed execution does nothing more, and every
\* execution comes to its End state or to its own failure, unless it is
\* cancelled from outside.
C4_FailureLeavesSiblings ==
    /\ [][\A i \in DOMAIN execs :
             /\ (execs[i].status # "failed" /\ execs'[i].status = "failed") =>
                    \A j \in DOMAIN execs \ {i} : execs'[j] = execs[j]
             /\ execs[i].status = "failed" => execs'[i] = execs[i]]_vars
    /\ [](\A i \in DOMAIN execs :
             execs[i].status = "cancelled" => execs[i].cancelled)
    /\ (phase = "returned") ~> (\A i \in DOMAIN execs : Terminated(i))

\* one execution has failed and a sibling is still suspended in its task
C4_Witness ==
    \E i, j \in DOMAIN execs :
        /\ execs[i].status = "failed"
        /\ execs[j].status = "awaiting"
        /\ execs[j].workflow_id = "task"

\* C5: in-process, send_event hands exactly one start() coroutine per
\* execution to the event loop and returns before any of them has run;
\* every execution then begins to run.
C5_ScheduledOnceNotAwaited ==
    /\ [](phase = "returned" =>
             /\ Len(scheduled) = Len(execs)
             /\ \A i \in DOMAIN execs :
                    Cardinality({j \in DOMAIN scheduled : scheduled[j].exec = i}) = 1)
    /\ [][(phase = "idle" /\ phase' = "returned") =>
             \A i \in DOMAIN execs' : execs'[i].status = "scheduled"]_vars
    /\ (phase = "returned") ~>
           (\A i \in DOMAIN execs : execs[i].status # "scheduled")

\* three executions were scheduled and all of them have begun
C5_Witness ==
    /\ phase = "returned"
    /\ Len(execs) = 3
    /\ \A i \in DOMAIN execs : execs[i].status # "scheduled"

\* the two routes of send_event, without the key
Routes ==
    phase = "returned" =>
        IF producer
        THEN /\ calls = <<"produce">>
             /\ Len(published) = 1
             /\ node = "<unset>"
             /\ execs = <<>> /\ scheduled = <<>>
        ELSE /\ published = <<>>
             /\ calls[1] = "process_func"
             /\ node = PyNone =>
                    calls = <<"process_func">> /\ execs = <<>> /\ scheduled = <<>>

EnterOf(e, i, types) ==
    /\ IsEnter(e, i)
    /\ StateOf(e, Trace(e)[i].st).Type \in types

\* the outcome of rule k of a Choice state on input v
RuleResult(state, k, v) == evaluate_choice_branch(state.Choices[k], v)

RuleTrue(state, k, v) == RuleResult(state, k, v).err = "" /\ RuleResult(state, k, v).b

RuleFalse(state, k, v) == RuleResult(state, k, v).err = "" /\ ~RuleResult(state, k, v).b

\* the Choice state entered at i has gone to the state named target
WentTo(e, i, target) ==
    /\ Len(Trace(e)) >= i + 2
    /\ Trace(e)[i + 1].ev = "choice"
    /\ Trace(e)[i + 2].ev = "enter"
    /\ Trace(e)[i + 2].st = target

FailedWith(e, kinds) == execs[e].status = "failed" /\ execs[e].err \in kinds

\* the names of the states of the definition execution e runs
Known(e) == DOMAIN Defs[execs[e].workflow_id].States

\* rule k is the rule the loop of the Choice state stops at on input v
FirstTrue(state, k, v) ==
    /\ RuleTrue(state, k, v)
    /\ \A j \in DOMAIN state.Choices : j < k => RuleFalse(state, j, v)
    /\ \A j \in DOMAIN state.Choices : j <= k => "End" \notin DOMAIN state.Choices[j]

\* C7: a Choice state goes to the Next of the first rule in list order that
\* is true on the state input, whatever the rules after it would give; when
\* every rule is false it goes to Default, and without a Default the
\* execution fails with States.NoChoiceMatched.  With the one rule n >= 10,
\* Default Small: n = 12 goes to Big and n = 3 goes to Small.  (Stated of
\* the rules that declare no End and of targets that are states of the
\* workflow; C15 and C13 are about the others.)
C7_FirstTrueRuleWins ==
    \A e \in DOMAIN execs : \A i \in DOMAIN Trace(e) :
        EnterOf(e, i, {"Choice"}) =>
            LET state == StateOf(e, Trace(e)[i].st)
                v == Trace(e)[i].val
                rules == DOMAIN state.Choices
            IN  /\ \A k \in rules :
                       (FirstTrue(state, k, v) /\ state.Choices[k].Next \in Known(e))
                           => WentTo(e, i, state.Choices[k].Next)
                /\ (/\ \A k \in rules : RuleFalse(state, k, v)
                    /\ \A k \in rules : "End" \notin DOMAIN state.Choices[k]) =>
                       IF "Default" \in DOMAIN state
                       THEN state.Default \in Known(e) => WentTo(e, i, state.Default)
                       ELSE /\ FailedWith(e, {"WkflwExecutionException"})
                            /\ execs[e].msg = "States.NoChoiceMatched"
                            /\ NoEnterAfter(e, i)
                /\ (execs[e].workflow_id = "choice" /\ v = JObj([n |-> JNum(12)]))
                       => WentTo(e, i, "Big")
                /\ (execs[e].workflow_id = "choice" /\ v = JObj([n |-> JNum(3)]))
                       => WentTo(e, i, "Small")

\* both rules were true on n = 12 and the first one was taken
C7_Witness ==
    \E e \in DOMAIN execs :
        /\ execs[e].workflow_id = "order"
        /\ Len(Trace(e)) >= 3
        /\ Trace(e)[1].val = JObj([n |-> JNum(12)])
        /\ RuleTrue(StateOf(e, "C"), 2, Trace(e)[1].val)
        /\ WentTo(e, 1, "Big")

\* rule 1 of the state is a leaf whose Variable matches nothing in v
LeafWithoutMatch(state, v) ==
    /\ Len(state.Choices) >= 1
    /\ "Variable" \in DOMAIN state.Choices[1]
    /\ Find(v, PathFields(state.Choices[1].Variable)) = <<>>

\* C8: when the Variable of a leaf rule matches nothing in the state input,
\* an IsPresent rule is false (the Choice does not take its Next), and a
\* rule with another comparator makes the execution fail with an
\* ExecutionError.
C8_MissingVariable ==
    \A e \in DOMAIN execs : \A i \in DOMAIN Trace(e) :
        (EnterOf(e, i, {"Choice"})
             /\ LeafWithoutMatch(StateOf(e, Trace(e)[i].st), Trace(e)[i].val)) =>
            LET state == StateOf(e, Trace(e)[i].st)
            IN  IF "IsPresent" \in DOMAIN state.Choices[1]
                THEN /\ RuleFalse(state, 1, Trace(e)[i].val)
                     /\ ~WentTo(e, i, state.Choices[1].Next)
                ELSE /\ FailedWith(e, ExecutionErrors)
                     /\ NoEnterAfter(e, i)

RECURSIVE SetAt(_, _, _)
\* data with val at the member path fields, objects made where there are
\* none, every other member kept; the root path gives val
SetAt(data, fields, val) ==
    IF fields = <<>> THEN val
    ELSE PutKey(IF IsObj(data) THEN data ELSE EmptyObj, Head(fields),
                SetAt(IF HasKey(data, Head(fields))
                      THEN data.o[Head(fields)] ELSE EmptyObj,
                      Tail(fields), val))

ValidResultPath(state) ==
    /\ "ResultPath" \in DOMAIN state
    /\ StartsWithDollar(state.ResultPath)
    /\ ~StartsWithDollarDollar(state.ResultPath)

\* C9: a Task with a valid ResultPath p (and neither ResultSelector nor
\* OutputPath) whose executor returned v hands on the input it was entered
\* with, v set at p.
C9_ResultPathGraft ==
    \A e \in DOMAIN execs : \A i \in DOMAIN Trace(e) :
        LET t == Trace(e)
            state == StateOf(e, t[i].st)
        IN  (/\ EnterOf(e, i, {"Task"})
             /\ ValidResultPath(state)
             /\ "ResultSelector" \notin DOMAIN state
             /\ "OutputPath" \notin DOMAIN state
             /\ Len(t) >= i + 3
             /\ t[i + 2].ev = "ret"
             /\ t[i + 3].ev = "shaped")
            => t[i + 3].val = SetAt(t[i].val, PathFields(state.ResultPath), t[i + 2].val)

\* C10: a Task or Pass state whose ResultPath does not begin with $, or
\* begins with $$, makes the execution fail with an ExecutionError and no
\* state is entered after it, with or without a Result.
C10_BadResultPathRejected ==
    \A e \in DOMAIN execs : \A i \in DOMAIN Trace(e) :
        (/\ EnterOf(e, i, {"Task", "Pass"})
         /\ "ResultPath" \in DOMAIN StateOf(e, Trace(e)[i].st)
         /\ ~ValidResultPath(StateOf(e, Trace(e)[i].st)))
        => /\ NoEnterAfter(e, i)
           /\ execs[e].status \notin {"awaiting", "cancelled"}
                  => FailedWith(e, ExecutionErrors)

\* the execution i would be after its executor call had returned "{}"
AsEmptyObject(i) ==
    resume(Returned(state_process_task_returns(
        [h |-> heap, x |-> execs[i], r |-> 0],
        [raised |-> FALSE, json |-> TRUE, v |-> EmptyObj])))

\* the step is the return of a failed executor call to execution i
ExecutorFailed(i) ==
    /\ i \in DOMAIN execs
    /\ execs[i].status = "awaiting"
    /\ Len(execs'[i].absorbed) = Len(execs[i].absorbed) + 1

\* C11: when the executor raises or returns text that is no JSON, the raw
\* output of the Task is {} and the execution goes on exactly as it would
\* had the executor returned {}: same shaping, same transition (or end), and
\* the executor is not called again for that state.
C11_ExecutorFailureAbsorbed ==
    /\ [][\A i \in DOMAIN execs :
             ExecutorFailed(i) =>
                 /\ execs'[i] = [AsEmptyObject(i).x EXCEPT
                                     !.absorbed = execs'[i].absorbed]
                 /\ heap' = AsEmptyObject(i).h]_vars
    /\ [](\A e \in DOMAIN execs : \A i \in DOMAIN Trace(e) :
             LET t == Trace(e)
             IN  /\ (t[i].ev = "ret"
                       /\ \E k \in DOMAIN execs[e].absorbed :
                              execs[e].absorbed[k] = t[i].st)
                        => t[i].val = EmptyObj
                 /\ t[i].ev = "call" =>
                        \A j \in DOMAIN t :
                            (t[j].ev = "call" /\ t[j].st = t[i].st) => j = i)

\* the executor failed in Task A, {} was grafted at $.r and B was entered
C11_Witness ==
    \E e \in DOMAIN execs :
        /\ execs[e].workflow_id = "task"
        /\ execs[e].absorbed = <<"A">>
        /\ execs[e].status = "done"
        /\ Len(Trace(e)) >= 5
        /\ Trace(e)[3].val = EmptyObj
        /\ Trace(e)[4].val = SetAt(Trace(e)[1].val, <<"r">>, EmptyObj)
        /\ Trace(e)[5].ev = "enter"

\* C12: a cancellation delivered while an execution is suspended in the
\* executor call ends the execution there: the step changes nothing of it
\* but its status (no raw output {} is made, no state is entered,
\* current_state_name stays), and the execution never changes afterwards.
C12_CancellationTearsDown ==
    /\ [][\A i \in DOMAIN execs :
             /\ (~execs[i].cancelled /\ execs'[i].cancelled) =>
                    /\ execs'[i] = [execs[i] EXCEPT !.status = "cancelled",
                                                    !.cancelled = TRUE]
                    /\ heap' = heap
             /\ execs[i].cancelled => execs'[i] = execs[i]]_vars
    /\ [](\A e \in DOMAIN execs :
             execs[e].cancelled =>
                 /\ execs[e].status = "cancelled"
                 /\ Trace(e)[Len(Trace(e))].ev = "call"
                 /\ Trace(e)[Len(Trace(e))].st = execs[e].current_state_name)

\* an execution was cancelled in Task A, which has a Next, while its
\* sibling has run to its end
C12_Witness ==
    \E e, f \in DOMAIN execs :
        /\ execs[e].cancelled
        /\ execs[e].workflow_id = "task"
        /\ execs[e].current_state_name = "A"
        /\ execs[f].status = "done"

\* the Choice state picks, on input v, a name outside the set known
PicksUnknown(state, v, known) ==
    \/ \E k \in DOMAIN state.Choices :
           FirstTrue(state, k, v) /\ state.Choices[k].Next \notin known
    \/ /\ \A k \in DOMAIN state.Choices :
              RuleFalse(state, k, v) /\ "End" \notin DOMAIN state.Choices[k]
       /\ "Default" \in DOMAIN state
       /\ state.Default \notin known

\* the execution failed with StateNotFound, the name left at `name`
NotFoundAt(e, name) ==
    /\ FailedWith(e, {"WkflwStateNotFoundError"})
    /\ execs[e].current_state_name = name

\* C13: a transition to a name that is no key of States, be it StartAt, a
\* Next or the target a Choice picked, fails with StateNotFound, leaves
\* current_state_name at its previous value and enters no state.
C13_UnknownTargetRejected ==
    \A e \in DOMAIN execs :
        /\ (execs[e].status # "scheduled"
              /\ Defs[execs[e].workflow_id].StartAt \notin Known(e))
               => NotFoundAt(e, PyNone) /\ Trace(e) = <<>>
        /\ \A i \in DOMAIN Trace(e) :
               LET state == StateOf(e, Trace(e)[i].st)
               IN  /\ (/\ Trace(e)[i].ev = "shaped"
                       /\ ~("End" \in DOMAIN state /\ state.End)
                       /\ "Next" \in DOMAIN state
                       /\ state.Next \notin Known(e))
                      => NotFoundAt(e, Trace(e)[i].st) /\ i = Len(Trace(e))
                   /\ (/\ EnterOf(e, i, {"Choice"})
                       /\ PicksUnknown(state, Trace(e)[i].val, Known(e)))
                      => NotFoundAt(e, Trace(e)[i].st) /\ i = Len(Trace(e))

\* an unknown Next and an unknown StartAt have both been refused
C13_Witness ==
    \E e, f \in DOMAIN execs :
        /\ execs[e].workflow_id = "unknownnext"
        /\ NotFoundAt(e, "A")
        /\ Len(Trace(e)) = 2
        /\ execs[f].workflow_id = "unknownstart"
        /\ NotFoundAt(f, PyNone)

\* C14: when a Task or Pass state has completed and declares neither a
\* true End nor a Next, the execution fails and no state is entered after
\* it, whatever the names of the states of the definition.
C14_AbsentNextFails ==
    \A e \in DOMAIN execs : \A i \in DOMAIN Trace(e) :
        LET state == StateOf(e, Trace(e)[i].st)
        IN  (/\ Trace(e)[i].ev = "shaped"
             /\ state.Type \in {"Task", "Pass"}
             /\ ~("End" \in DOMAIN state /\ state.End)
             /\ "Next" \notin DOMAIN state)
            => /\ execs[e].status = "failed"
               /\ i = Len(Trace(e))

\* C15: a Choice state in which some rule declares End, at whatever
\* position, fails with an ExecutionError and goes to no state, whichever
\* rule matches the input (stated for the inputs on which no rule raises
\* when it is evaluated).
C15_ChoiceRuleEndRejected ==
    \A e \in DOMAIN execs : \A i \in DOMAIN Trace(e) :
        (/\ EnterOf(e, i, {"Choice"})
         /\ \E k \in DOMAIN StateOf(e, Trace(e)[i].st).Choices :
                "End" \in DOMAIN StateOf(e, Trace(e)[i].st).Choices[k]
         /\ \A k \in DOMAIN StateOf(e, Trace(e)[i].st).Choices :
                RuleResult(StateOf(e, Trace(e)[i].st), k, Trace(e)[i].val).err = "")
        => /\ FailedWith(e, ExecutionErrors)
           /\ i = Len(Trace(e))

\* get_jsonpath_value has been called with data and an expression
Called(fn) == probe.fn = fn /\ probe.called

\* the matches of the expression of the call in its data
Matches == Find(probe.data, PathFields(probe.expr))

\* C16: on an expression that ends in a slice selector get_jsonpath_value
\* returns a list for every input: the selected elements, be there several,
\* one scalar, one object or array (in a one-element list), or none.
C16_SliceGivesList ==
    (Called("get_jsonpath_value") /\ EndsInSlice(probe.expr))
        => /\ probe.out.err = ""
           /\ probe.out.v = JList(Matches)

\* C17: on a path without a slice that matches nothing get_jsonpath_value
\* reports an error (PathNotFound) and returns no value.
C17_NoMatchIsAnError ==
    (Called("get_jsonpath_value")
        /\ \A i \in DOMAIN probe.expr : ~IsSlice(probe.expr[i])
        /\ Matches = <<>>)
        => probe.out.err # ""

\* the template key without its last two characters
WithoutSuffix(param) == SubSeq(param, 1, Len(param) - 2)

\* C19: for every template key ending in ".$" evaluate_payload_template
\* writes the key with exactly its last two characters taken off (a "." or
\* "$" before them stays), every other key as it is, so that keys fall
\* together only where that gives the same key.
C19_SuffixStrippedExactly ==
    Called("evaluate_payload_template") =>
        probe.keys = {IF endswith_dot_dollar(param) THEN WithoutSuffix(param)
                      ELSE param : param \in probe.params}

\* a ".$" value that is a JSONPath as a whole
WholePath(value) == StartsWithDollar(value) /\ parse_error(value) = ""

\* C18: evaluate_payload_template hands the value of a ".$" field to the
\* JSONPath evaluator only when the whole value is a path and to the
\* scanner, parser and interpreter otherwise; the template
\* {"total.$": "$.price * 0.1"} on the input {price: 100} gives {total: 10.0}.
C18_ArithmeticIsInterpreted ==
    (/\ Called("evaluate_payload_template")
     /\ \E param \in probe.params : endswith_dot_dollar(param))
    => /\ probe.out.by = "get_jsonpath_value" <=> WholePath(probe.expr)
       /\ (/\ probe.params = {TotalKey}
           /\ probe.expr = <<"$", "price", " * ", "0.1">>
           /\ probe.data = JObj([price |-> JNum(100)]))
          => /\ probe.out.err = ""
             /\ probe.out.v = JDec(100)
             /\ probe.keys = {<<"t", "o", "t", "a", "l">>}

\* C20: an execution that failed because the scanner, the parser or the
\* interpreter raised while a payload template was evaluated has failed with
\* an ExecutionError (WkflwExecutionException or a subclass of it).
C20_IntrinsicFailureIsExecutionError ==
    \A e \in DOMAIN execs :
        (/\ execs[e].status = "failed"
         /\ execs[e].msg \in {"scanner", "parser", "interpreter"})
        => execs[e].err \in ExecutionErrors

\* the call is of a leaf rule whose only comparator is `comparator` and
\* whose Variable resolves to a number in the state input
NumericRule(comparator) ==
    /\ Called("evaluate_choice_branch")
    /\ DOMAIN probe.branch = {"Variable", comparator}
    /\ Len(Find(probe.data, PathFields(probe.branch.Variable))) = 1
    /\ Find(probe.data, PathFields(probe.branch.Variable))[1].k = "num"

\* the number the Variable of the rule resolves to
RuleValue == Find(probe.data, PathFields(probe.branch.Variable))[1].n

\* C21: NumericGreaterThan is true exactly when v > k (false when v = k),
\* NumericGreaterThanEquals exactly when v >= k.
C21_GreaterThanIsStrict ==
    /\ NumericRule("NumericGreaterThan") =>
           /\ probe.out.err = ""
           /\ probe.out.b <=> RuleValue > probe.branch.NumericGreaterThan
    /\ NumericRule("NumericGreaterThanEquals") =>
           /\ probe.out.err = ""
           /\ probe.out.b <=> RuleValue >= probe.branch.NumericGreaterThanEquals

\* C22: a rule with only Variable and NumericLessThanEquals k is true
\* exactly when v <= k, and does not raise.
C22_LessThanEquals ==
    NumericRule("NumericLessThanEquals") =>
        /\ probe.out.err = ""
        /\ probe.out.b <=> RuleValue <= probe.branch.NumericLessThanEquals

\* C23: the result of a rule whose Variable begins with "$$" does not depend
\* on the state input: on every other input the rule gives the same.
C23_ContextVariableIgnoresInput ==
    (/\ Called("evaluate_choice_branch")
     /\ "Variable" \in DOMAIN probe.branch
     /\ StartsWithDollarDollar(probe.branch.Variable))
    => \A state_input \in ChoiceInputs :
           evaluate_choice_branch(probe.branch, state_input) = probe.out

\* the state declares a Result of literal values only, a valid ResultPath
\* and an OutputPath, and no Parameters
ShapedPass(state) ==
    /\ "Result" \in DOMAIN state
    /\ \A key \in DOMAIN state.Result : ~state.Result[key].dyn
    /\ ValidResultPath(state)
    /\ "OutputPath" \in DOMAIN state
    /\ "Parameters" \notin DOMAIN state

\* the value of a Result of literal values
LiteralResult(state) == JObj([key \in DOMAIN state.Result |-> state.Result[key].lit])

\* C24: the state entered after a Pass state with a Result gets the
\* OutputPath selection of the input with the Result set at ResultPath; the
\* state entered after a Pass state without Result gets the input of the
\* Pass state unchanged.
C24_PassOutputShaping ==
    \A e \in DOMAIN execs : \A i \in DOMAIN Trace(e) :
        LET t == Trace(e)
            state == StateOf(e, t[i].st)
        IN  (/\ EnterOf(e, i, {"Pass"})
             /\ Len(t) >= i + 2
             /\ t[i + 2].ev = "enter")
            => /\ "Result" \notin DOMAIN state => t[i + 2].val = t[i].val
               /\ ShapedPass(state) =>
                      <<t[i + 2].val>> =
                          Find(SetAt(t[i].val, PathFields(state.ResultPath),
                                     LiteralResult(state)),
                               PathFields(state.OutputPath))

\* the document of the file a cached or returned workflow was loaded from
Loaded(identifier) == Files[identifier.md5]

\* the returned execution x holds the document orig with every Resource
\* rewritten once, and the credentials of the original Resources
RewrittenOnce(x, orig) ==
    LET got == document(lookup.heap, x.workflow_definition)
    IN  /\ got.StartAt = orig.StartAt
        /\ DOMAIN got.States = DOMAIN orig.States
        /\ \A n \in DOMAIN orig.States :
               IF "Resource" \in DOMAIN orig.States[n]
               THEN /\ got.States[n].Resource = python_m(orig.States[n].Resource)
                    /\ n \in DOMAIN x.state_context
                    /\ x.state_context[n] =
                           credentials_get(first_segment(orig.States[n].Resource))
               ELSE /\ got.States[n] = orig.States[n]
                    /\ n \notin DOMAIN x.state_context

\* C25: get_workflows never modifies the cached definitions: after any
\* number of calls every cached definition is the document loaded from its
\* file, every definition that was returned has each Resource rewritten
\* exactly once (python -m <original>), and its state_context holds the
\* credentials of the original, un-rewritten Resource
C25_CacheIsNeverModified ==
    /\ \A i \in DOMAIN lookup.workflows :
           document(lookup.heap, lookup.workflows[i].definition) =
               Loaded(lookup.workflows[i].identifier)
    /\ \A c \in DOMAIN lookup.returned :
           \A k \in DOMAIN lookup.returned[c].executions :
               RewrittenOnce(lookup.returned[c].executions[k],
                             Loaded(lookup.returned[c].executions[k].workflow_id))

\* get_workflows was called three times for one node id that has two
\* cached workflows
C25_Witness ==
    /\ Len(lookup.returned) = MaxCalls
    /\ \A c \in DOMAIN lookup.returned :
           /\ lookup.returned[c].initial_node_id = lookup.returned[1].initial_node_id
           /\ Len(lookup.returned[c].executions) = 2

\* C27: execution_id is unique per WorkflowExecution: two executions made
\* by initialize_workflows, also two made for one event, have different
\* execution_id values
C27_ExecutionIdIsUnique ==
    \A i \in DOMAIN execs : \A j \in DOMAIN execs :
        i # j => execs[i].execution_id # execs[j].execution_id

\* the number of arguments of the call in `tokens`: a comma ends every
\* argument but the last
ArgumentsIn(tokens) ==
    IF tokens[3].type = "RIGHT_PAREN" THEN 0
    ELSE Cardinality({i \in DOMAIN tokens : tokens[i].type = "COMMA"}) + 1

\* the position of the token that begins argument n, every argument before
\* it being one string
ArgumentStart(n) == 2 * n + 1

RECURSIVE Apostrophes(_)
Apostrophes(source) ==
    IF source = <<>> THEN 0
    ELSE (IF Head(source) = "'" THEN 1 ELSE 0) + Apostrophes(Tail(source))

Holds(source, c) == \E i \in DOMAIN source : source[i] = c

\* one of the apostrophes of the source opens a string that is never
\* closed: their number is odd, none is escaped and none stands between
\* brackets
UnterminatedString(source) ==
    /\ Apostrophes(source) % 2 = 1
    /\ ~Holds(source, "\\")
    /\ ~Holds(source, "[")

\* a JSONPath of the source has a "[" that is never closed: a "[" follows a
\* "$", and the source has no "]" at all (and no string the "[" could be
\* part of)
UnterminatedSelector(source) ==
    /\ \E i \in DOMAIN source : \E j \in DOMAIN source :
           i < j /\ source[i] = "$" /\ source[j] = "["
    /\ ~Holds(source, "]")
    /\ ~Holds(source, "'")

\* C29: the scanner rejects every source that holds an apostrophe-opened
\* string with no closing apostrophe, and every JSONPath with a "[" that is
\* never closed, wherever the lexeme starts: scan raises, and has made no
\* token of the unterminated lexeme
C29_UnterminatedIsRejected ==
    (/\ probe.fn = "scan"
     /\ probe.called
     /\ UnterminatedString(probe.expr) \/ UnterminatedSelector(probe.expr))
    => probe.out.err # ""

StartsWith(source, path) ==
    Len(path) <= Len(source) /\ SubSeq(source, 1, Len(path)) = path

\* the JSONPath a source of PathSources begins with, the longest there is
PathOf(source) ==
    CHOOSE path \in Paths :
        /\ StartsWith(source, path)
        /\ \A other \in Paths : StartsWith(source, other) => Len(other) <= Len(path)

RECURSIVE AfterBlanks(_, _)
AfterBlanks(source, i) ==
    IF i <= Len(source) /\ source[i] = " " THEN AfterBlanks(source, i + 1) ELSE i

\* C30: when a JSONPath is followed, directly or after blanks, by an
\* arithmetic operator, a comma or a parenthesis, the lexeme of the JSONPATH
\* token stops before that character, and the character is the next token:
\* the scanner takes neither the operator nor an operand into the lexeme
C30_PathStopsAtOperator ==
    (probe.fn = "scan" /\ probe.called /\ probe.expr \in PathSources)
    => LET path == PathOf(probe.expr)
           next == AfterBlanks(probe.expr, Len(path) + 1)
       IN  /\ probe.out.err = ""
           /\ probe.out.tokens[1].type = "JSONPATH"
           /\ probe.out.tokens[1].offset_end < next
           /\ probe.out.tokens[2].type = SingleCharacter[probe.expr[next]]
           /\ probe.out.tokens[2].offset_start = next - 1

\* C26: the driver never modifies workflow_definition: after any sequence
\* of state executions the definition is the one the execution was made
\* with; here, every list of the definition holds the elements it was
\* loaded with
C26_DefinitionIsReadOnly ==
    \A e \in DOMAIN execs : \A n \in DOMAIN execs[e].lits :
        heap[execs[e].lits[n]] = ListLiteral(Defs[execs[e].workflow_id], n)

\* what the user intended by a content: each escaped apostrophe is an
\* apostrophe
Intended(content) ==
    Joined([i \in DOMAIN content |->
               IF content[i] = <<"\\", "'">> THEN <<"'">> ELSE content[i]])

\* the scan of a string literal gave one STRING token, its lexeme the
\* whole literal and its literal the intended content, and EOF
ScannedAsString(content) ==
    /\ probe.out.err = ""
    /\ Len(probe.out.tokens) = 2
    /\ probe.out.tokens[1].type = "STRING"
    /\ probe.out.tokens[1].lexeme = Quoted(content)
    /\ probe.out.tokens[1].literal = PyLiteral("str", Intended(content))
    /\ probe.out.tokens[2].type = "EOF"

\* C31: for every apostrophe-delimited string literal, wherever its \'
\* escapes are (first in the content, one after the other, last before the
\* closing apostrophe), the scanner emits exactly one STRING token whose
\* lexeme is the whole quoted text and whose literal is the content with
\* each \' replaced by '
C31_EscapesAreResolved ==
    \A content \in Contents :
        (probe.fn = "scan" /\ probe.called /\ probe.expr = Quoted(content))
            => ScannedAsString(content)

\* the part of C31 the scanner meets: every escape of the content follows
\* a character that is not part of an escape
EscapesFollowCharacters ==
    \A content \in Contents :
        (/\ probe.fn = "scan" /\ probe.called /\ probe.expr = Quoted(content)
         /\ \A i \in DOMAIN content :
               content[i] = <<"\\", "'">> => (i > 1 /\ content[i - 1] = <<"a">>))
            => ScannedAsString(content)

\* system_defaults after the i-th call of define_system_default
DefaultsAfter(i) ==
    IF i = Len(environment.defined) THEN environment.system_defaults
    ELSE environment.defined[i + 1].before

\* C32: the registry refuses a name that is already registered or that
\* begins with $; a refused registration leaves the registry unchanged (the
\* earlier binding of a duplicate name is kept); an accepted one binds the
\* name to its callable and changes nothing else; no registered name begins
\* with $
C32_RegistryRefusals ==
    /\ \A i \in DOMAIN environment.defined :
          LET d == environment.defined[i]
          IN  /\ (d.raised # "") <=> (\/ d.name \in DOMAIN d.before
                                      \/ startswith_dollar(d.name))
              /\ d.raised # "" => DefaultsAfter(i) = d.before
              /\ d.raised = "" =>
                    /\ DOMAIN DefaultsAfter(i) = DOMAIN d.before \cup {d.name}
                    /\ DefaultsAfter(i)[d.name] = d.value
                    /\ \A key \in DOMAIN d.before :
                          DefaultsAfter(i)[key] = d.before[key]
    /\ \A name \in DOMAIN environment.system_defaults : ~startswith_dollar(name)

\* a name was registered, then refused as a duplicate, a name beginning
\* with $ was refused, and another name was registered after that
C32_Witness ==
    /\ \E i, j \in DOMAIN environment.defined :
          /\ i < j
          /\ environment.defined[i].name = environment.defined[j].name
          /\ environment.defined[i].raised = ""
          /\ environment.defined[j].raised = "KeyError"
    /\ \E i \in DOMAIN environment.defined :
          environment.defined[i].raised = "ValueError"
    /\ Len(environment.defined) = MaxRegistrations
    /\ environment.defined[MaxRegistrations].raised = ""

\* the value of an operand of the Binary that was evaluated
Operand(expr) == evaluate(expr, probe.data).v

BothNumbers == IsNumber(Operand(probe.expr.left)) /\ IsNumber(Operand(probe.expr.right))

BothStrings ==
    Operand(probe.expr.left).k = "str" /\ Operand(probe.expr.right).k = "str"

\* + of two numbers or two strings, another operator of two numbers
WellTyped ==
    IF probe.expr.operator.type = "PLUS" THEN BothNumbers \/ BothStrings
    ELSE BothNumbers

\* the Binary was evaluated as the type check says
TypeChecked ==
    IF WellTyped
    THEN /\ probe.out.err = ""
         /\ BothStrings =>
                probe.out.v = JStr(Operand(probe.expr.left).o[1]
                                   \o Operand(probe.expr.right).o[1])
         /\ BothNumbers => IsNumber(probe.out.v)
    ELSE probe.out.err = "RuntimeError"

\* C33: + succeeds exactly when both operands are numbers (sum) or both
\* are strings (concatenation); -, * and / succeed exactly when both are
\* numbers; this holds for numbers read through a JSONPath variable as for
\* numeric literals; every other combination raises the interpreter's
\* RuntimeError
C33_BinaryIsTypeChecked ==
    (probe.fn = "visit_binary_expr" /\ probe.called) => TypeChecked

\* the part of C33 the interpreter meets: + on two literals, and
\* well-typed -, * and /
LiteralsAreTypeChecked ==
    (/\ probe.fn = "visit_binary_expr" /\ probe.called
     /\ \/ /\ probe.expr.operator.type = "PLUS"
           /\ probe.expr.left.node = "Literal"
           /\ probe.expr.right.node = "Literal"
        \/ probe.expr.operator.type # "PLUS" /\ WellTyped)
        => TypeChecked

\* set_jsonpath_value returned a new object that has new_data at the path,
\* and the caller's data is what it was
CopyWasUpdated ==
    /\ probe.out.data = probe.data
    /\ ~probe.out.same
    /\ Find(probe.out.ret, PathFields(probe.expr)) = <<SetNewData>>

\* C34: set_jsonpath_value with use_copy=True never modifies its data
\* argument: for every data, the empty object included, the returned value
\* has new_data at the path and the caller's original is unchanged
C34_CopyLeavesDataAlone ==
    (probe.fn = "set_jsonpath_value" /\ probe.called /\ probe.out.err = "")
        => CopyWasUpdated

\* the part of C34 the function meets: data that is not empty, and a path
\* below the root
NonEmptyDataIsLeftAlone ==
    (/\ probe.fn = "set_jsonpath_value" /\ probe.called /\ probe.out.err = ""
     /\ Truthy(probe.data)
     /\ probe.expr # <<"$">>)
        => CopyWasUpdated

\* the definition has no StartAt, or a StartAt that names no state
BadStartAt(definition) ==
    \/ "StartAt" \notin DOMAIN definition
    \/ definition.StartAt \notin DOMAIN definition.States

\* C35: an execution runs its workflow at most once: start() on an
\* execution whose current_state_name is not null (running, or over at an
\* End state) raises the already-started error, executes no state and
\* leaves current_state_name alone; a start() that failed because StartAt
\* is missing or names no state leaves current_state_name null
C35_StartsAtMostOnce ==
    /\ (probe.fn = "start" /\ probe.called
        /\ probe.self.current_state_name # PyNone)
          => /\ probe.out.err = "WkflwExecutionAlreadyStartedError"
             /\ probe.out.x.current_state_name = probe.self.current_state_name
             /\ probe.out.x.trace = probe.self.trace
             /\ probe.out.x.assigns = probe.self.assigns
    /\ (probe.fn = "start" /\ probe.called
        /\ BadStartAt(Defs[probe.self.workflow_id]))
          => /\ probe.out.err \in ExecutionErrors
             /\ probe.out.x.current_state_name = PyNone
    /\ \A e \in DOMAIN execs :
          (execs[e].status # "scheduled" /\ BadStartAt(Defs[execs[e].workflow_id]))
              => /\ execs[e].status = "failed"
                 /\ execs[e].current_state_name = PyNone

\* start() was called again on an execution that is over at an End state
C35_Witness ==
    /\ probe.fn = "start"
    /\ probe.called
    /\ probe.self.status = "done"
    /\ probe.self.current_state_name = "B"
    /\ Len(probe.self.trace) > 2

\* start() was called again on an execution suspended in a task
C35_WitnessRunning ==
    probe.fn = "start" /\ probe.called /\ probe.self.status = "awaiting"

\* start() was called again after a start() that found no StartAt
C35_WitnessNoStartAt ==
    /\ probe.fn = "start"
    /\ probe.called
    /\ probe.self.workflow_id = "nostartat"
    /\ probe.self.status = "failed"

\* the positions of the trace where a state is entered
Enters(e) == {i \in DOMAIN Trace(e) : IsEnter(e, i)}

\* a Choice state of the execution has set its target
HasChosen(e) == \E i \in DOMAIN Trace(e) : Trace(e)[i].ev = "choice"

\* the state entered last
LastEntered(e) ==
    Trace(e)[CHOOSE i \in Enters(e) : \A j \in Enters(e) : j <= i].st

\* C36: every transition causes exactly one state execution and nothing
\* runs after End: when the branch a Choice chose has run to its End state
\* and control is back in the execute_state frame of the Choice, no further
\* state is executed, no state is executed twice and current_state_name
\* stays the name of the End state
C36_NothingRunsAfterEnd ==
    \A e \in DOMAIN execs :
        /\ (HasChosen(e) /\ execs[e].status = "done") =>
               /\ execs[e].stack = <<>>
               /\ "End" \in DOMAIN StateOf(e, LastEntered(e))
               /\ StateOf(e, LastEntered(e)).End
               /\ execs[e].current_state_name = LastEntered(e)
               /\ \A i, j \in Enters(e) : Trace(e)[i].st = Trace(e)[j].st => i = j
        /\ execs[e].status \in {"done", "awaiting"} =>
               Cardinality(Enters(e)) = execs[e].assigns

\* the branch of a Choice ran a task to its End while the frame of the
\* Choice was waiting, and the execution is over
C36_Witness ==
    \E e \in DOMAIN execs :
        /\ execs[e].workflow_id = "order"
        /\ execs[e].status = "done"
        /\ HasChosen(e)
        /\ \E i \in DOMAIN Trace(e) : Trace(e)[i].ev = "ret"

\* the expression matches exactly one value, a scalar
OneScalar ==
    /\ Len(Find(probe.data, PathFields(probe.expr))) = 1
    /\ Find(probe.data, PathFields(probe.expr))[1].k \notin {"obj", "list"}

\* C37: get_jsonpath_value terminates for every expression and data: when
\* the expression matches exactly one scalar, the walk over the parse tree
\* ends with a result, also when the tree is no chain of Child nodes down
\* to Root (a descendant expression $..x, a path that does not start at
\* the root)
C37_WalkTerminates ==
    (probe.fn = "get_jsonpath_value" /\ OneScalar) ~> probe.called

\* the part of C37 the function meets: the walk of a chain of Child nodes
\* down to Root ends with a result
ChainWalkTerminates ==
    (probe.fn = "get_jsonpath_value" /\ OneScalar /\ ChildChain(probe.expr))
        ~> (probe.called /\ probe.out.err = "")

\* what the walk returns is what get_jsonpath_value is taken to return
\* elsewhere in the model
WalkAgrees ==
    (probe.fn = "get_jsonpath_value" /\ probe.called)
        => probe.out = get_jsonpath_value(probe.data, probe.expr)

\* where the walk does not end, get_jsonpath_value is taken not to return
WalkStuck ==
    (/\ probe.fn = "get_jsonpath_value" /\ ~probe.called
     /\ probe.c.node \in {"Fields", "Descendants"}
     /\ jsonpath_parse(probe.expr).node \in {"Child", "Descendants"}
     /\ jsonpath_parse(probe.expr).right.node # "Slice")
        => get_jsonpath_value(probe.data, probe.expr).err = "NeverReturns"


\* the list of tokens has a DOT in it
Dotted(tokens) == \E i \in DOMAIN tokens : tokens[i].type = "DOT"

\* the tokens are what they were before the first Parser was made, and the
\* second Parser returns what the first one returned
TokensLeftAlone ==
    /\ probe.tokens = probe.self
    /\ probe.again.err # "<unset>"
           => /\ probe.again.err = probe.out.err
              /\ probe.again.expr = probe.out.expr

\* C38: parsing does not modify the tokens it is given: after
\* Parser(tokens).call() every token reads as before, a second Parser on the
\* same list returns the expression the first one returned, and after the
\* call States.Format('hi') the callee's name is States.Format while the
\* first token still has the lexeme States
C38_ParsingLeavesTokensAlone ==
    (probe.fn = "call" /\ probe.called)
    => /\ TokensLeftAlone
       /\ (probe.out.err = "" /\ probe.out.expr.node = "Call"
               /\ probe.out.expr.callee.node = "Variable"
               /\ probe.self[2].type = "DOT")
              => /\ probe.out.expr.callee.name.lexeme
                        = probe.self[1].lexeme \o <<".">> \o probe.self[3].lexeme
                 /\ probe.tokens[1].lexeme = probe.self[1].lexeme

\* token lists without a DOT are left alone
UndottedTokensAreLeftAlone ==
    (probe.fn = "call" /\ probe.called /\ ~Dotted(probe.self))
    => TokensLeftAlone

\* the callee of a dotted call gets the dotted name, and so does the token
\* the callee holds; a second Parser appends the member name once more
DottedNameIsWrittenToTheToken ==
    (probe.fn = "call" /\ probe.called /\ probe.out.err = ""
         /\ probe.out.expr.node = "Call"
         /\ probe.out.expr.callee.node = "Variable"
         /\ probe.self[2].type = "DOT")
    => /\ probe.out.expr.callee.name.lexeme
              = probe.self[1].lexeme \o <<".">> \o probe.self[3].lexeme
       /\ probe.again.err = "<unset>"
              => probe.tokens[1].lexeme = probe.out.expr.callee.name.lexeme
       /\ probe.again.err = ""
              => /\ probe.again.expr.callee.name.lexeme
                        = probe.out.expr.callee.name.lexeme
                              \o <<".">> \o probe.self[3].lexeme
                 /\ probe.tokens[1].lexeme = probe.again.expr.callee.name.lexeme


\* the states a state of the definition names: Next, Choices[].Next, Default
Successors(wf, name) ==
    (IF "Next" \in DOMAIN wf.States[name] THEN {wf.States[name].Next} ELSE {})
    \cup (IF "Default" \in DOMAIN wf.States[name]
          THEN {wf.States[name].Default} ELSE {})
    \cup (IF "Choices" \in DOMAIN wf.States[name]
          THEN {wf.States[name].Choices[i].Next :
                    i \in {j \in DOMAIN wf.States[name].Choices :
                               "Next" \in DOMAIN wf.States[name].Choices[j]}}
          ELSE {})

\* the states named by the states of `names`
After(wf, names) ==
    UNION {Successors(wf, name) : name \in names \cap DOMAIN wf.States}

RECURSIVE Reach(_, _, _)
\* `names` and what is reached from them by at most k transitions
Reach(wf, names, k) ==
    IF k = 0 THEN names ELSE Reach(wf, names \cup After(wf, names), k - 1)

\* the transition graph has a cycle: a state is reached from itself
Cyclic(wf) ==
    \E name \in DOMAIN wf.States :
        name \in Reach(wf, After(wf, {name}), Cardinality(DOMAIN wf.States))

\* no state of the definition has End
Endless(wf) ==
    \A name \in DOMAIN wf.States :
        "End" \notin DOMAIN wf.States[name] \/ ~wf.States[name].End

\* the number of states execution e has entered
Entered(e) ==
    Cardinality({i \in DOMAIN execs[e].trace : execs[e].trace[i].ev = "enter"})

\* the execution runs a definition whose states name each other in a
\* circle and none of which has End
Circular(e) ==
    Cyclic(Defs[execs[e].workflow_id]) /\ Endless(Defs[execs[e].workflow_id])

\* an exception was raised by the processing of a state
StateFailed(e) == execs[e].err \notin {"", "RecursionError"}

\* a definition without a cycle: no more states are executed than the
\* definition has, and start() returns in a state with End unless it raises
AcyclicRunsEachStateOnce ==
    \A e \in DOMAIN execs :
        ~Cyclic(Defs[execs[e].workflow_id])
        => /\ Entered(e) <= Cardinality(DOMAIN Defs[execs[e].workflow_id].States)
           /\ execs[e].status = "done"
                  => /\ "End" \in DOMAIN StateOf(e, execs[e].current_state_name)
                     /\ StateOf(e, execs[e].current_state_name).End

C39_WitnessAcyclic ==
    /\ ~Cyclic(Defs[execs[1].workflow_id])
    /\ execs[1].status = "done"
    /\ Entered(1) = Cardinality(DOMAIN Defs[execs[1].workflow_id].States)

NoRecursionError == \A e \in DOMAIN execs : execs[e].err # "RecursionError"


\* Execution.Input of the task context is the input the execution was made
\* with
InputIsKept(e) ==
    get_task_context(heap, execs[e], execs[e].task).Execution.Input
        = execs[e].created

\* C40: original_input, reported to every task as Execution.Input, stays
\* equal to the input the execution was created with for the whole
\* execution, whatever the states graft into the first state's input, at a
\* top-level or at a nested path
C40_OriginalInputIsKept == \A e \in DOMAIN execs : InputIsKept(e)

\* the input the execution was made with holds no dict
FlatInput(e) ==
    \A key \in DOMAIN execs[e].original_input.o :
        execs[e].original_input.o[key].k # "ref"

\* grafts at the top level of the first state's input, and grafts below a
\* key the input has not, leave original_input alone
FlatInputIsKept == \A e \in DOMAIN execs : FlatInput(e) => InputIsKept(e)

\* a graft has changed the first state's input, original_input being what
\* it was
C40_WitnessFlat ==
    /\ FlatInput(1)
    /\ Resolve(heap, heap[SharedRef]) # execs[1].created
    /\ execs[1].status = "awaiting"
    /\ returns > 0

====
